---- MODULE Spec2Model ----
(***************************************************************************)
(* Remote process lifecycle of massa_test_framework: Server.run and the    *)
(* scoped command handle (ParamikoRemotePopen.run, its drain worker        *)
(* output_fp, wait), Server.stop, and the Node.start / Node.stop wrapper.  *)
(*                                                                         *)
(* One command handle is followed from Server.run to its release.  Three   *)
(* parties act: the caller thread, the drain worker thread, and the        *)
(* remote side (the command and the transport feeding the channel).        *)
(*                                                                         *)
(* Time is counted in units of the grace loop's sleep (0.1 s,              *)
(* server.py:104).  A step of a runnable thread takes no time; time        *)
(* passes (Tick) only while the worker sleeps in its grace loop or the     *)
(* caller is blocked in join / in its own block.                           *)
(***************************************************************************)
EXTENDS Integers, Sequences, FiniteSets

\* ------------------------------------------------------------- bounds
\* Longest command output, in bytes.
MaxOut == 3
\* Largest chunk one recv returns (the code's 65535, scaled to MaxOut).
RecvMax == 2

\* ------------------------------------------------- program constants
\* Post-completion grace window: 1.0 s, in 0.1 s units.
GraceWindow == 10
\* bgthd.join(1): 1 s, in 0.1 s units.
JoinTimeout == 10
\* self.returncode = -1: the unset sentinel.
Unset == -1

\* ------------------------------------------------------------ helpers
Min(a, b) == IF a < b THEN a ELSE b

\* Byte kinds of the output: an ASCII byte, the lead byte of a two-byte
\* UTF-8 character, a continuation byte.
Kinds == {"a", "L", "C"}

RECURSIVE WellFormed(_)
\* bytes.decode() accepts exactly the well-formed UTF-8 sequences.
WellFormed(ks) ==
  IF ks = <<>> THEN TRUE
  ELSE IF ks[1] = "a" THEN WellFormed(Tail(ks))
  ELSE IF ks[1] = "L" /\ Len(ks) >= 2 /\ ks[2] = "C"
       THEN WellFormed(Tail(Tail(ks)))
  ELSE FALSE

\* The outputs a command may print: text, of at most MaxOut bytes.
Outputs ==
  {ks \in UNION {[1..n -> Kinds] : n \in 0..MaxOut} : WellFormed(ks)}

\* The exit statuses a command may report.
Statuses == {0, 1}

VARIABLES
  local,        \* server_opts.local
  wrapper,      \* who opened the scope: "none" (with server.run(..)) or "node" (Node.start)
  sinkText,     \* isinstance(fp, io.TextIOBase)
  out,          \* the bytes the command prints, as kinds; byte i is position i
  cpc,          \* the caller thread's position
  waited,       \* the block has called wait()
  stopCalled,   \* Server.stop(handle) has been called
  pend,         \* the exception propagating in the caller ("none" if none)
  raised,       \* the exception the caller's block raised ("none" if none)
  cmd,          \* the command: "none", "running", "exited"
  cmdStatus,    \* the exit status the command ended with
  stopSignal,   \* what was sent to the command to stop it: "none", "api", "term"
  submitted,    \* channel.exec_command(cmd) has succeeded
  arrived,      \* number of output bytes the transport has fed to the channel
  inbuf,        \* channel.in_buffer: positions of the bytes not yet received
  exitStatus,   \* channel.exit_status
  statusReady,  \* channel.status_event is set
  eofReceived,  \* channel.eof_received
  closed,       \* channel.closed
  returncode,   \* ParamikoRemotePopen.returncode
  reaped,       \* local backend: Popen.returncode is not None
  wpc,          \* the drain worker's position
  wbuf,         \* the chunk the worker holds between recv and write
  graceT,       \* time since the worker's grace window started
  joinT,        \* time since the caller entered join
  sink,         \* what the sink received: a sequence of items, each the positions it encodes
  workers,      \* number of drain workers started for the handle
  readers,      \* threads that have read from the channel
  writers,      \* who has written to the sink
  tdLog         \* the teardown steps performed so far, in order

\* Node.wait_ready / Node.wait_with_cb: one readiness wait.
VARIABLES
  waitFn,       \* the wait being run: "none", "wait_ready", "wait_with_cb"
  timeout,      \* its timeout argument, in units of 0.5 s
  duration,     \* the sleep between two polls (duration / sleep_duration), same unit
  count,        \* the accumulated sleep
  waitPc,       \* "idle", "poll", "sleep", "returned", "timed_out", "error"
  targetReady,  \* the target answers a poll as ready
  neverReady    \* the target never becomes ready

waitVars == <<waitFn, timeout, duration, count, waitPc, targetReady, neverReady>>

\* Server instances and the file systems they work on (Server, SshServer,
\* RemotePath, copy_file).
VARIABLES
  optsLocal,    \* server_opts.local of each Server instance
  server,       \* self.server of each instance: "None" or "SshServer"
  cleanup,      \* self._cleanup of each instance
  dirs,         \* the directories of each host
  files,        \* the files of each host, as pairs <<path, content>>
  held,         \* the path objects the calling code holds
  now,          \* datetime.datetime.now()
  used,         \* the facilities each instance has called so far
  last,         \* the last call made and how it ended
  nOps,         \* calls made so far
  nJoins,       \* compositions made so far
  cur           \* the path the caller is composing

fsVars == <<optsLocal, server, cleanup, dirs, files, held, now, used, last, nOps,
            nJoins, cur>>

\* One call of a function that keeps no state (the command string of
\* SshServer.run, the operation builders of massa_py.operations).
VARIABLES
  callArgs,     \* the function called and its arguments ([fn |-> "none"] before)
  callRes       \* how the call ended and what it gave ([st |-> "none"] before)

pureVars == <<callArgs, callRes>>

\* One installation: Node._install, LedgerEditor._install or
\* RemoteBin._install, on one Server.
VARIABLES
  instCls,       \* the installer's class ("none": no installation followed)
  instLocal,     \* server_opts.local of its server
  toInstall,     \* the manifest (self._to_install, or the to_install argument), in order
  built,         \* the manifest keys whose source file exists under repo
  instPc,        \* "idle", "start", "create", "entry", "done", "failed"
  idx,           \* the position in the loop being run
  instDirs,      \* the directories of the install folder, relative to it
  instFiles,     \* the files of the install folder, relative to it
  copies,        \* the keys copy_file has been called for, in order
  instErr,       \* the exception that left _install, and the call it came from
  installFolder  \* self.install_folder

instVars == <<instCls, instLocal, toInstall, built, instPc, idx, instDirs,
              instFiles, copies, instErr, installFolder>>

\* One CompileUnit and one call of its compile().
VARIABLES
  cuLocal,          \* server_opts.local of its server
  alreadyCompiled,  \* compile_opts.already_compiled: "None", or a folder that "exists" or is "absent"
  patches,          \* self._patches, in insertion order
  buildTarget,      \* build_opts: "none" (no --target), "arch" (--target <arch>), "nomatch" (--target the regex cannot read)
  cuPc,             \* "idle", "start", "clone", "patch", "build", "record", "done", "failed"
  cuIdx,            \* the patch being applied
  cuLog,            \* the steps run so far, each with how it went
  cuErr,            \* the exception that left compile()
  cuRepo,           \* self._repo (Path("") until recorded)
  cuTarget,         \* self._target
  cuCopy            \* the branch copy_file took for a file installed from the repo

cuVars == <<cuLocal, alreadyCompiled, patches, buildTarget, cuPc, cuIdx, cuLog,
            cuErr, cuRepo, cuTarget, cuCopy>>

\* Handles on one connection: the handles (ParamikoRemotePopen objects)
\* made by SshServer.run on one context.
Handles == {"h1", "h2"}
\* The sink objects a caller may pass as stdout; sys.stdout is the default
\* and a text stream, the file is opened in binary mode.
Sinks == {"sys.stdout", "f"}

VARIABLES
  nextChan,      \* the channels the transport has opened so far
  hPc,           \* h -> the caller's position: "none", "running", "joining", "released"
  hChannel,      \* h -> proc.channel (0 before the run)
  hSink,         \* h -> the stdout argument
  hReturncode,   \* h -> proc.returncode
  hWorker,       \* h -> bgthd: "none", "loop", "grace", "done", "dead"
  chEof,         \* c -> channel.eof_received
  chStatusReady, \* c -> channel.exit_status_ready()
  chExitStatus,  \* c -> channel.exit_status
  chInbuf,       \* c -> chunks received and not yet read
  chSent,        \* c -> chunks the command has printed
  sinkData       \* sink -> the channels whose chunks were written, in order

sessVars == <<nextChan, hPc, hChannel, hSink, hReturncode, hWorker, chEof,
              chStatusReady, chExitStatus, chInbuf, chSent, sinkData>>

\* MassaClusterManager.terminate: one call.
VARIABLES
  terminatingTimeout,  \* terminating_timeout, in seconds
  waitingInterval,     \* waiting_interval, in seconds
  elapsed,             \* time.time() - start_time
  tmPc,                \* "idle", "remove", "poll", "check", "sleep", "returned", "raised"
  namespacePhase,      \* the namespace on the cluster: "absent", "Active", "Terminating"
  namespaceStatus      \* what the last poll returned: "unset", "None", or a phase

tmVars == <<terminatingTimeout, waitingInterval, elapsed, tmPc, namespacePhase,
            namespaceStatus>>

\* The state of the other components.
extVars == <<pureVars, instVars, cuVars, sessVars, tmVars>>

\* Everything outside the command handle.
otherVars == <<waitVars, fsVars, extVars>>

vars == <<local, wrapper, sinkText, out, cpc, waited, stopCalled, pend, raised,
          cmd, cmdStatus, stopSignal, submitted, arrived, inbuf, exitStatus,
          statusReady, eofReceived, closed, returncode, reaped, wpc, wbuf,
          graceT, joinT, sink, workers, readers, writers, tdLog, otherVars>>

\* What no step of the handle's lifecycle changes: its configuration, and
\* the state outside the handle.
confVars == <<local, wrapper, sinkText, out, otherVars>>
callerVars == <<cpc, waited, stopCalled, pend, raised, returncode, reaped, joinT, tdLog>>
chanVars == <<submitted, arrived, inbuf, exitStatus, statusReady, eofReceived, closed>>
cmdVars == <<cmd, cmdStatus, stopSignal>>
workerVars == <<wpc, wbuf, graceT, sink, workers, readers, writers>>

\* ------------------------------------------------------------ channel
\* Channel.exit_status_ready()
ExitStatusReady == closed \/ statusReady
\* Channel.recv_ready()
RecvReady == inbuf # <<>>
\* Channel.recv(65535): the head of the buffer, at most RecvMax bytes.
RecvChunk(buf) == SubSeq(buf, 1, Min(Len(buf), RecvMax))
RecvRest(buf) == SubSeq(buf, Min(Len(buf), RecvMax) + 1, Len(buf))

\* The kinds of the bytes of a chunk.
KindsOf(chunk) == [i \in 1..Len(chunk) |-> out[chunk[i]]]

RECURSIVE Decode(_)
\* buf.decode(): the characters of a well-formed chunk, each character the
\* positions of its bytes.
Decode(chunk) ==
  IF chunk = <<>> THEN <<>>
  ELSE IF out[chunk[1]] = "a" THEN <<(<<chunk[1]>>)>> \o Decode(Tail(chunk))
  ELSE <<(<<chunk[1], chunk[2]>>)>> \o Decode(Tail(Tail(chunk)))

\* fp.write(buf) on a binary sink: one item per byte.
Raw(chunk) == [i \in 1..Len(chunk) |-> <<chunk[i]>>]

RECURSIVE Encode(_)
\* The bytes of what the sink holds.
Encode(items) ==
  IF items = <<>> THEN <<>> ELSE Head(items) \o Encode(Tail(items))

\* The bytes the channel has delivered so far, in its order.
Delivered == [i \in 1..arrived |-> i]
\* All the bytes of the command's output.
AllBytes == [i \in 1..Len(out) |-> i]

\* ------------------------------------------------------ readiness wait
\* No wait has been called; the target may or may not ever become ready.
WaitStart ==
  /\ waitFn = "none"
  /\ timeout = 0
  /\ duration = 0
  /\ count = 0
  /\ waitPc = "idle"
  /\ targetReady = FALSE
  /\ neverReady \in BOOLEAN

\* The readiness wait left aside.
WaitIdle == WaitStart /\ neverReady

\* ------------------------------------------ servers, paths, file systems
\* Bounds: the readings of the clock, and the calls and the path
\* compositions followed in one run.
MaxStamp == 2
MaxOps == 2
MaxJoins == 2

\* The Server instances.
Servers == {"s1", "s2"}
\* The machine the test program runs on.
LocalHost == "localhost"
\* The machines: the local one and the ssh_host of each remote instance.
Hosts == {LocalHost} \cup Servers
\* The machine an instance works on.
HostOf(s) == IF optsLocal[s] THEN LocalHost ELSE s

\* File contents.
Contents == {"x", "y"}
\* Relative segments joined to a path.
Names == {"a", "b"}
\* The prefix argument of mkdtemp: None or a string.
Prefixes == {"None", "p"}
\* A path segment: a name and, for a temporary directory, what follows
\* the prefix (the timestamp, or tempfile's random part); 0 otherwise.
Seg(n, k) == <<n, k>>

\* prefix or "tmp_py_mf_"
RemotePrefix(prefix) == IF prefix = "None" THEN "tmp_py_mf_" ELSE prefix
\* tempfile.mkdtemp(prefix=None) uses tempfile's own default, "tmp".
LocalPrefix(prefix) == IF prefix = "None" THEN "tmp" ELSE prefix

\* A path object: its class, its server attribute ("unset" when the
\* object has none), its parts below the root, and the instance whose
\* mkdtemp it descends from ("none" for a path the caller wrote down).
PathObj(c, sv, o, ps) == [cls |-> c, server |-> sv, origin |-> o, parts |-> ps]
\* The local source file the caller starts with.
SrcFile == PathObj("Path", "unset", "none", <<Seg("src", 0)>>)
NoPath == PathObj("Path", "unset", "none", <<>>)

\* Path.parent, as parts.
Parent(ps) == SubSeq(ps, 1, Len(ps) - 1)
IsDir(h, ps) == ps = <<>> \/ ps \in dirs[h]
\* What a file may hold: a content, or nothing.
FileContents == Contents \cup {"empty"}
IsFile(h, ps) == \E c \in FileContents : <<ps, c>> \in files[h]
Exists(h, ps) == IsDir(h, ps) \/ IsFile(h, ps)
ContentOf(h, ps) == CHOOSE c \in FileContents : <<ps, c>> \in files[h]
\* The files of h once ps holds c.
WithFile(h, ps, c) == {f \in files[h] : f[1] # ps} \cup {<<ps, c>>}
\* ps and its ancestors.
Ancestors(ps) == {SubSeq(ps, 1, n) : n \in 1..Len(ps)}

\* No call made yet.
NoCall == [op |-> "none", s |-> "none", kw |-> "none", res |-> "none",
           prims |-> <<>>, src |-> NoPath, dst |-> NoPath, was |-> "none"]

\* Path.__truediv__: a path of the same class with one more part; the new
\* object has no server attribute.
PurePathJoin(q, n) == PathObj(q.cls, "unset", q.origin, Append(q.parts, Seg(n, 0)))

\* Variant: a RemotePath that does not override __truediv__.
TrueDivNoServer(q, n) == PurePathJoin(q, n)

\* RemotePath.__truediv__: p = super().__truediv__(other); p.server = self.server
TrueDiv(q, n) ==
  IF q.cls = "RemotePath"
  THEN [PurePathJoin(q, n) EXCEPT !.server = q.server]
  ELSE PurePathJoin(q, n)

\* A local path the caller holds where nothing exists yet.
DstFile == PathObj("Path", "unset", "none", <<Seg("dst", 0)>>)

\* The temporary directory an instance made earlier (mkdtemp(None)), as
\* parts and as the object mkdtemp returned.
EarlierParts(l) == <<Seg(IF l THEN LocalPrefix("None") ELSE RemotePrefix("None"), 0)>>
Earlier(s, l) ==
  PathObj(IF l THEN "Path" ELSE "RemotePath", IF l THEN "unset" ELSE s, s,
          EarlierParts(l))

\* Server.__init__ for each instance (s2 is remote), followed by earlier
\* use: each instance has made one temporary directory, and a remote one
\* holds a file "a" in it; the caller holds these paths, a path "b" next
\* to the file, its local source file and a local destination.
FsStart ==
  /\ optsLocal \in {f \in [Servers -> BOOLEAN] : ~f["s2"]}
  /\ server = [s \in Servers |-> IF optsLocal[s] THEN "None" ELSE "SshServer"]
  /\ cleanup = [s \in Servers |-> <<Earlier(s, optsLocal[s])>>]
  /\ dirs = [h \in Hosts |->
              IF h = LocalHost
              THEN {EarlierParts(TRUE) : s \in {t \in Servers : optsLocal[t]}}
              ELSE IF optsLocal[h] THEN {} ELSE {EarlierParts(FALSE)}]
  /\ \E c \in Contents :
       files = [h \in Hosts |->
                 IF h = LocalHost THEN {<<SrcFile.parts, c>>}
                 ELSE IF optsLocal[h] THEN {}
                 ELSE {<<Append(EarlierParts(FALSE), Seg("a", 0)), "y">>}]
  /\ held = {SrcFile, DstFile}
            \cup {Earlier(s, optsLocal[s]) : s \in Servers}
            \cup {TrueDiv(Earlier(s, FALSE), n) :
                    s \in {t \in Servers : ~optsLocal[t]}, n \in Names}
  /\ now = 1
  /\ used = [s \in Servers |-> {}]
  /\ last = NoCall
  /\ nOps = 0
  /\ nJoins = 0
  /\ cur = NoPath

\* The servers and file systems left aside: local instances just
\* constructed, nothing made, no path held.
FsIdle ==
  /\ optsLocal = [s \in Servers |-> TRUE]
  /\ server = [s \in Servers |-> "None"]
  /\ cleanup = [s \in Servers |-> <<>>]
  /\ dirs = [h \in Hosts |-> {}]
  /\ files = [h \in Hosts |-> {}]
  /\ held = {}
  /\ now = 1
  /\ used = [s \in Servers |-> {}]
  /\ last = NoCall
  /\ nOps = 0
  /\ nJoins = 0
  /\ cur = NoPath

\* ------------------------------------------------- other components
\* No function call followed.
PureIdle ==
  /\ callArgs = [fn |-> "none"]
  /\ callRes = [st |-> "none"]

\* No installation followed.
InstIdle ==
  /\ instCls = "none"
  /\ instLocal = TRUE
  /\ toInstall = <<>>
  /\ built = {}
  /\ instPc = "idle"
  /\ idx = 0
  /\ instDirs = {}
  /\ instFiles = {}
  /\ copies = <<>>
  /\ instErr = [err |-> "none", from |-> "none"]
  /\ installFolder = "unset"

\* No compilation followed.
CuIdle ==
  /\ cuLocal = TRUE
  /\ alreadyCompiled = "None"
  /\ patches = <<>>
  /\ buildTarget = "none"
  /\ cuPc = "idle"
  /\ cuIdx = 0
  /\ cuLog = <<>>
  /\ cuErr = "none"
  /\ cuRepo = NoPath
  /\ cuTarget = ""
  /\ cuCopy = "none"

\* The channels one connection may carry here: one for each handle.
Chans == 1..Cardinality(Handles)

\* A connection just made: no channel opened, no handle.
SessStart ==
  /\ nextChan = 0
  /\ hPc = [h \in Handles |-> "none"]
  /\ hChannel = [h \in Handles |-> 0]
  /\ hSink = [h \in Handles |-> "none"]
  /\ hReturncode = [h \in Handles |-> Unset]
  /\ hWorker = [h \in Handles |-> "none"]
  /\ chEof = [c \in Chans |-> FALSE]
  /\ chStatusReady = [c \in Chans |-> FALSE]
  /\ chExitStatus = [c \in Chans |-> Unset]
  /\ chInbuf = [c \in Chans |-> 0]
  /\ chSent = [c \in Chans |-> 0]
  /\ sinkData = [k \in Sinks |-> <<>>]

\* No second handle followed.
SessIdle == SessStart

\* No cluster terminated.
TermIdle ==
  /\ terminatingTimeout = 0
  /\ waitingInterval = 0
  /\ elapsed = 0
  /\ tmPc = "idle"
  /\ namespacePhase = "absent"
  /\ namespaceStatus = "unset"

\* The other components left aside.
ExtIdle == PureIdle /\ InstIdle /\ CuIdle /\ SessIdle /\ TermIdle

\* --------------------------------------------------------------- Init
Init ==
  /\ WaitIdle
  /\ FsIdle
  /\ ExtIdle
  /\ local \in BOOLEAN
  /\ wrapper \in {"none", "node"}
  /\ sinkText \in BOOLEAN
  /\ (local => ~sinkText)
  /\ out \in Outputs
  /\ cpc = "init"
  /\ waited = FALSE
  /\ stopCalled = FALSE
  /\ pend = "none"
  /\ raised = "none"
  /\ cmd = "none"
  /\ cmdStatus = Unset
  /\ stopSignal = "none"
  /\ submitted = FALSE
  /\ arrived = 0
  /\ inbuf = <<>>
  /\ exitStatus = Unset
  /\ statusReady = FALSE
  /\ eofReceived = FALSE
  /\ closed = FALSE
  /\ returncode = Unset
  /\ reaped = FALSE
  /\ wpc = "none"
  /\ wbuf = <<>>
  /\ graceT = 0
  /\ joinT = 0
  /\ sink = <<>>
  /\ workers = 0
  /\ readers = {}
  /\ writers = {}
  /\ tdLog = <<>>

\* ------------------------------------------------------ the caller
\* The thread whose liveness join() checks.
WorkerAlive == wpc \notin {"none", "done", "dead"}

\* Where the caller goes when its block is left: the first step of the
\* handle's scope exit (Popen.__exit__ or the finally of run).
TeardownEntry == IF local THEN "l_exit" ELSE "td_eof"

\* Server.run, local backend: subprocess.Popen starts the command at once.
ServerRunLocal ==
  /\ cpc = "init"
  /\ local
  /\ cmd' = "running"
  /\ cpc' = "have_handle"
  /\ UNCHANGED <<confVars, waited, stopCalled, pend, raised, returncode, reaped,
                 joinT, tdLog, cmdStatus, stopSignal, chanVars, workerVars>>

\* Server.run, remote backend: SshServer.run opens a session, builds the
\* handle and returns proc.run(..), the context manager, not yet entered.
SshServerRun ==
  /\ cpc = "init"
  /\ ~local
  /\ cpc' = "have_handle"
  /\ UNCHANGED <<confVars, waited, stopCalled, pend, raised, returncode, reaped,
                 joinT, tdLog, cmdVars, chanVars, workerVars>>

\* transport.open_session() fails: run() raises the transport error.
SshServerRunFail ==
  /\ cpc = "init"
  /\ ~local
  /\ cpc' = "run_failed"
  /\ pend' = "TransportError"
  /\ UNCHANGED <<confVars, waited, stopCalled, raised, returncode, reaped,
                 joinT, tdLog, cmdVars, chanVars, workerVars>>

\* with process as p, local backend: Popen.__enter__ returns the handle.
EnterLocal ==
  /\ cpc = "have_handle"
  /\ local
  /\ cpc' = "block"
  /\ UNCHANGED <<confVars, waited, stopCalled, pend, raised, returncode, reaped,
                 joinT, tdLog, cmdVars, chanVars, workerVars>>

\* Entering the remote scope, first half: the drain thread is created and
\* started.
StartWorker ==
  /\ cpc = "have_handle"
  /\ ~local
  /\ wpc' = "poll"
  /\ workers' = workers + 1
  /\ cpc' = "exec"
  /\ UNCHANGED <<confVars, waited, stopCalled, pend, raised, returncode, reaped,
                 joinT, tdLog, cmdVars, chanVars, wbuf, graceT, sink, readers, writers>>

\* Entering the remote scope, second half: channel.exec_command(cmd)
\* succeeds and the generator yields the handle.
ExecCommand ==
  /\ cpc = "exec"
  /\ submitted' = TRUE
  /\ cmd' = "running"
  /\ cpc' = "block"
  /\ UNCHANGED <<confVars, waited, stopCalled, pend, raised, returncode, reaped,
                 joinT, tdLog, cmdStatus, stopSignal, arrived, inbuf, exitStatus,
                 statusReady, eofReceived, closed, workerVars>>

\* channel.exec_command(cmd) raises: the error leaves __enter__ before the
\* try is reached, so no teardown runs.
ExecCommandFail ==
  /\ cpc = "exec"
  /\ cpc' = "enter_failed"
  /\ pend' = "TransportError"
  /\ UNCHANGED <<confVars, waited, stopCalled, raised, returncode, reaped,
                 joinT, tdLog, cmdVars, chanVars, workerVars>>

\* The block calls wait() on the handle.
BlockWait ==
  /\ cpc = "block"
  /\ ~waited
  /\ cpc' = "wait"
  /\ waited' = TRUE
  /\ UNCHANGED <<confVars, stopCalled, pend, raised, returncode, reaped,
                 joinT, tdLog, cmdVars, chanVars, workerVars>>

\* Variant: wait() that drains the channel itself before it returns.
RemoteWaitReturnDrains ==
  /\ cpc = "wait"
  /\ ~local
  /\ ExitStatusReady \/ eofReceived
  /\ cpc' = "block"
  /\ inbuf' = <<>>
  /\ sink' = sink \o [i \in 1..Len(inbuf) |-> <<inbuf[i]>>]
  /\ readers' = readers \cup {"caller"}
  /\ writers' = writers \cup {"caller"}
  /\ UNCHANGED <<confVars, waited, stopCalled, pend, raised, returncode, reaped,
                 joinT, tdLog, cmdVars, submitted, arrived, exitStatus,
                 statusReady, eofReceived, closed, wpc, wbuf, graceT, workers>>

\* Variant: wait() that returns without looking at the channel's flags.
RemoteWaitReturnAtOnce ==
  /\ cpc = "wait"
  /\ ~local
  /\ cpc' = "block"
  /\ UNCHANGED <<confVars, waited, stopCalled, pend, raised, returncode, reaped,
                 joinT, tdLog, cmdVars, chanVars, workerVars>>

\* ParamikoRemotePopen.wait returns: its loop ends when the channel
\* reports exit status ready or end-of-stream.
RemoteWaitReturn ==
  /\ cpc = "wait"
  /\ ~local
  /\ ExitStatusReady \/ eofReceived
  /\ cpc' = "block"
  /\ UNCHANGED <<confVars, waited, stopCalled, pend, raised, returncode, reaped,
                 joinT, tdLog, cmdVars, chanVars, workerVars>>

\* Popen.wait returns: the process has exited and is reaped.
LocalWaitReturn ==
  /\ cpc = "wait"
  /\ local
  /\ cmd = "exited"
  /\ reaped' = TRUE
  /\ cpc' = "block"
  /\ UNCHANGED <<confVars, waited, stopCalled, pend, raised, returncode,
                 joinT, tdLog, cmdVars, chanVars, workerVars>>

\* Server.stop(process): terminate() on the local backend, nothing on the
\* remote one.
ServerStop ==
  /\ stopCalled' = TRUE
  /\ stopSignal' = IF local /\ cmd = "running" THEN "term" ELSE stopSignal
  /\ UNCHANGED <<cmd, cmdStatus, chanVars>>

\* The block calls Server.stop on its handle.
BlockStop ==
  /\ cpc = "block"
  /\ wrapper = "none"
  /\ ~stopCalled
  /\ ServerStop
  /\ UNCHANGED <<confVars, cpc, waited, pend, raised, returncode, reaped,
                 joinT, tdLog, workerVars>>

\* The block ends normally.  Under Node.start the else branch calls stop.
BlockEnd ==
  /\ cpc = "block"
  /\ cpc' = IF wrapper = "node" THEN "n_stop" ELSE TeardownEntry
  /\ UNCHANGED <<confVars, waited, stopCalled, pend, raised, returncode, reaped,
                 joinT, tdLog, cmdVars, chanVars, workerVars>>

\* The block raises e.  Under Node.start, except Exception calls stop and
\* re-raises; anything else goes straight to the handle's scope exit.
BlockRaise(e) ==
  /\ cpc = "block"
  /\ raised' = e
  /\ pend' = e
  /\ cpc' = IF wrapper = "node" /\ e = "Exception" THEN "n_stop" ELSE TeardownEntry
  /\ UNCHANGED <<confVars, waited, stopCalled, returncode, reaped,
                 joinT, tdLog, cmdVars, chanVars, workerVars>>

\* Variant: a Node.stop that calls Server.stop whatever the API answered.
NodeStopApiOkThenStop ==
  /\ cpc = "n_stop"
  /\ cmd = "running"
  /\ stopCalled' = TRUE
  /\ stopSignal' = "api"
  /\ cpc' = TeardownEntry
  /\ UNCHANGED <<confVars, waited, pend, raised, returncode, reaped,
                 joinT, tdLog, cmd, cmdStatus, chanVars, workerVars>>

\* Node.stop: priv_api2.stop_node() is answered; the node has been asked
\* to stop.
NodeStopApiOk ==
  /\ cpc = "n_stop"
  /\ cmd = "running"
  /\ stopSignal' = "api"
  /\ cpc' = TeardownEntry
  /\ UNCHANGED <<confVars, waited, stopCalled, pend, raised, returncode, reaped,
                 joinT, tdLog, cmd, cmdStatus, chanVars, workerVars>>

\* Node.stop: stop_node() fails with a connection error, which is caught,
\* and Server.stop is called.
NodeStopApiRefused ==
  /\ cpc = "n_stop"
  /\ ServerStop
  /\ cpc' = TeardownEntry
  /\ UNCHANGED <<confVars, waited, pend, raised, returncode, reaped,
                 joinT, tdLog, workerVars>>

\* Node.stop: stop_node() fails with an error that is not a connection
\* error (a read timeout, an undecodable answer): it is not caught.
NodeStopApiError ==
  /\ cpc = "n_stop"
  /\ pend' = "ApiError"
  /\ cpc' = TeardownEntry
  /\ UNCHANGED <<confVars, waited, stopCalled, raised, returncode, reaped,
                 joinT, tdLog, cmdVars, chanVars, workerVars>>

\* Variant: the teardown written after the yield without try/finally, so
\* that an exception in the block skips it.
TeardownEofNoFinally ==
  /\ cpc = "td_eof"
  /\ IF pend # "none"
     THEN /\ cpc' = "released"
          /\ UNCHANGED <<eofReceived, tdLog, joinT>>
     ELSE /\ eofReceived' = TRUE
          /\ tdLog' = Append(tdLog, "eof")
          /\ joinT' = 0
          /\ cpc' = "td_join"
  /\ UNCHANGED <<confVars, waited, stopCalled, pend, raised, returncode, reaped,
                 cmdVars, submitted, arrived, inbuf, exitStatus, statusReady,
                 closed, workerVars>>

\* finally, step 1: self.channel.eof_received = True
TeardownEof ==
  /\ cpc = "td_eof"
  /\ eofReceived' = TRUE
  /\ tdLog' = Append(tdLog, "eof")
  /\ joinT' = 0
  /\ cpc' = "td_join"
  /\ UNCHANGED <<confVars, waited, stopCalled, pend, raised, returncode, reaped,
                 cmdVars, submitted, arrived, inbuf, exitStatus, statusReady,
                 closed, workerVars>>

\* Variant: bgthd.join() without a timeout.
JoinReturnsNoTimeout == wpc \in {"none", "done", "dead"}

\* bgthd.join(1) returns when the thread is dead or the timeout has run
\* out.
JoinReturns == ~WorkerAlive \/ joinT >= JoinTimeout

\* finally, step 2: bgthd.join(1)
TeardownJoin ==
  /\ cpc = "td_join"
  /\ JoinReturns
  /\ tdLog' = Append(tdLog, "join")
  /\ cpc' = "td_status"
  /\ UNCHANGED <<confVars, waited, stopCalled, pend, raised, returncode, reaped,
                 joinT, cmdVars, chanVars, workerVars>>

\* Variant: a teardown that reports success without reading the channel.
TeardownStatusZero ==
  /\ cpc = "td_status"
  /\ returncode' = 0
  /\ tdLog' = Append(tdLog, "status")
  /\ cpc' = "released"
  /\ UNCHANGED <<confVars, waited, stopCalled, pend, raised, reaped,
                 joinT, cmdVars, chanVars, workerVars>>

\* finally, step 3: self.returncode = self.channel.exit_status; then the
\* pending exception, if any, goes on.
TeardownStatus ==
  /\ cpc = "td_status"
  /\ returncode' = exitStatus
  /\ tdLog' = Append(tdLog, "status")
  /\ cpc' = "released"
  /\ UNCHANGED <<confVars, waited, stopCalled, pend, raised, reaped,
                 joinT, cmdVars, chanVars, workerVars>>

\* Popen.__exit__: waits for the process to end.
LocalExit ==
  /\ cpc = "l_exit"
  /\ cmd = "exited"
  /\ reaped' = TRUE
  /\ cpc' = "released"
  /\ UNCHANGED <<confVars, waited, stopCalled, pend, raised, returncode,
                 joinT, tdLog, cmdVars, chanVars, workerVars>>

\* ------------------------------------------------- the drain worker
\* fp.write(buf.decode()) on a text sink, fp.write(buf) otherwise.
Written(chunk) == IF sinkText THEN Decode(chunk) ELSE Raw(chunk)
\* buf.decode() raises UnicodeDecodeError on a chunk that is not
\* well-formed; the exception ends the thread.
WriteFails(chunk) == sinkText /\ ~WellFormed(KindsOf(chunk))

\* buf = channel.recv(65535), by thread t, which goes on to position next.
Recv(t, next) ==
  /\ wbuf' = RecvChunk(inbuf)
  /\ inbuf' = RecvRest(inbuf)
  /\ readers' = readers \cup {t}
  /\ wpc' = next

\* Variant: a decoding error is swallowed and the loop goes on.
WriteSkipOnError(t, next) ==
  /\ wbuf' = <<>>
  /\ wpc' = next
  /\ IF WriteFails(wbuf)
     THEN sink' = sink /\ writers' = writers
     ELSE sink' = sink \o Written(wbuf) /\ writers' = writers \cup {t}

\* The write of the chunk in hand; the thread goes on to position next.
Write(t, next) ==
  /\ wbuf' = <<>>
  /\ IF WriteFails(wbuf)
     THEN wpc' = "dead" /\ sink' = sink /\ writers' = writers
     ELSE wpc' = next /\ sink' = sink \o Written(wbuf) /\ writers' = writers \cup {t}

\* Top of the loop, completion seen: done = True, start = perf_counter().
WorkerSeeDone ==
  /\ wpc = "poll"
  /\ ExitStatusReady \/ eofReceived
  /\ wpc' = "grace"
  /\ graceT' = 0
  /\ UNCHANGED <<confVars, callerVars, cmdVars, chanVars, wbuf, sink, workers, readers,
                 writers>>

\* Top of the loop, no completion yet, output ready: recv.
WorkerPollRecv ==
  /\ wpc = "poll"
  /\ ~(ExitStatusReady \/ eofReceived)
  /\ RecvReady
  /\ Recv("worker", "pollw")
  /\ UNCHANGED <<confVars, callerVars, cmdVars, submitted, arrived, exitStatus,
                 statusReady, eofReceived, closed, graceT, sink, workers,
                 writers>>

\* ... and the write that follows it.
WorkerPollWrite ==
  /\ wpc = "pollw"
  /\ Write("worker", "poll")
  /\ UNCHANGED <<confVars, callerVars, cmdVars, chanVars, graceT, workers, readers>>

\* Grace loop, output ready: recv.
WorkerGraceRecv ==
  /\ wpc = "grace"
  /\ RecvReady
  /\ Recv("worker", "gracew")
  /\ UNCHANGED <<confVars, callerVars, cmdVars, submitted, arrived, exitStatus,
                 statusReady, eofReceived, closed, graceT, sink, workers,
                 writers>>

\* Variant: the inner loop left for the outer one while the window runs.
GraceNextBack(t) == IF t > GraceWindow THEN "done" ELSE "poll"

\* end = perf_counter(); if end - start > 1.0: break, where t is
\* end - start.  done being True, the outer loop ends with the inner one.
GraceNext(t) == IF t > GraceWindow THEN "done" ELSE "grace"

\* ... and the write that follows it, then the check of the clock.
WorkerGraceWrite ==
  /\ wpc = "gracew"
  /\ Write("worker", GraceNext(graceT))
  /\ UNCHANGED <<confVars, callerVars, cmdVars, chanVars, graceT, workers, readers>>

\* Grace loop, nothing ready: time.sleep(0.1).
WorkerGraceSleep ==
  /\ wpc = "grace"
  /\ ~RecvReady
  /\ wpc' = "gsleep"
  /\ UNCHANGED <<confVars, callerVars, cmdVars, chanVars, wbuf, graceT, sink,
                 workers, readers,
                 writers>>

\* ------------------------------------------------- the remote side
\* The transport feeds the next output byte to the channel.  Output may
\* lag the command's exit status, but not the channel's close.
EnvOutput ==
  /\ ~local
  /\ submitted
  /\ ~closed
  /\ arrived < Len(out)
  /\ arrived' = arrived + 1
  /\ inbuf' = Append(inbuf, arrived + 1)
  /\ UNCHANGED <<confVars, callerVars, cmdVars, submitted, exitStatus,
                 statusReady, eofReceived, closed, workerVars>>

\* Local backend: the process writes its next byte straight to the sink.
LocalOutput ==
  /\ local
  /\ cmd = "running"
  /\ arrived < Len(out)
  /\ arrived' = arrived + 1
  /\ sink' = Append(sink, <<arrived + 1>>)
  /\ writers' = writers \cup {"process"}
  /\ UNCHANGED <<confVars, callerVars, cmdVars, submitted, inbuf, exitStatus,
                 statusReady, eofReceived, closed, wpc, wbuf, graceT, workers, readers>>

\* The command ends with status st.
CmdExit(st) ==
  /\ cmd = "running"
  /\ cmd' = "exited"
  /\ cmdStatus' = st
  /\ UNCHANGED <<confVars, callerVars, stopSignal, chanVars, workerVars>>

\* The command's exit status reaches the channel.
EnvExitStatus ==
  /\ ~local
  /\ cmd = "exited"
  /\ ~statusReady
  /\ exitStatus' = cmdStatus
  /\ statusReady' = TRUE
  /\ UNCHANGED <<confVars, callerVars, cmdVars, submitted, arrived, inbuf,
                 eofReceived, closed, workerVars>>

\* The remote end's end-of-stream reaches the channel: after all the
\* output, before or after the exit status.
EnvEof ==
  /\ ~local
  /\ cmd = "exited"
  /\ arrived = Len(out)
  /\ ~eofReceived
  /\ eofReceived' = TRUE
  /\ UNCHANGED <<confVars, callerVars, cmdVars, submitted, arrived, inbuf,
                 exitStatus, statusReady, closed, workerVars>>

\* The remote end closes the channel: after all output and the status.
EnvClose ==
  /\ ~local
  /\ statusReady
  /\ arrived = Len(out)
  /\ ~closed
  /\ closed' = TRUE
  /\ UNCHANGED <<confVars, callerVars, cmdVars, submitted, arrived, inbuf,
                 exitStatus, statusReady, eofReceived, workerVars>>

\* ---------------------------------------------------------------- time
\* The worker has a step to take now.
WorkerRunnable ==
  \/ wpc \in {"pollw", "grace", "gracew"}
  \/ wpc = "poll" /\ (ExitStatusReady \/ eofReceived \/ RecvReady)

\* The caller has a step to take now.
CallerRunnable ==
  \/ cpc \in {"td_eof", "td_status"}
  \/ cpc = "td_join" /\ JoinReturns

\* 0.1 s passes: a sleeping worker wakes and checks its clock, a joining
\* caller has waited that much longer.
Tick ==
  /\ wpc = "gsleep" \/ cpc = "td_join"
  /\ ~WorkerRunnable
  /\ ~CallerRunnable
  /\ graceT' = IF wpc = "gsleep" THEN graceT + 1 ELSE graceT
  /\ wpc' = IF wpc = "gsleep" THEN GraceNext(graceT + 1) ELSE wpc
  /\ joinT' = IF cpc = "td_join" THEN joinT + 1 ELSE joinT
  /\ UNCHANGED <<confVars, cpc, waited, stopCalled, pend, raised, returncode,
                 reaped, tdLog, cmdVars, chanVars, wbuf, sink, workers, readers,
                 writers>>

\* ---------------------------------------------------------------- Spec
Next ==
  \/ ServerRunLocal
  \/ SshServerRun
  \/ SshServerRunFail
  \/ EnterLocal
  \/ StartWorker
  \/ ExecCommand
  \/ ExecCommandFail
  \/ BlockWait
  \/ RemoteWaitReturn
  \/ LocalWaitReturn
  \/ BlockStop
  \/ BlockEnd
  \/ \E e \in {"Exception", "BaseException"} : BlockRaise(e)
  \/ NodeStopApiOk
  \/ NodeStopApiRefused
  \/ NodeStopApiError
  \/ TeardownEof
  \/ TeardownJoin
  \/ TeardownStatus
  \/ LocalExit
  \/ WorkerSeeDone
  \/ WorkerPollRecv
  \/ WorkerPollWrite
  \/ WorkerGraceRecv
  \/ WorkerGraceWrite
  \/ WorkerGraceSleep
  \/ EnvOutput
  \/ LocalOutput
  \/ \E st \in Statuses : CmdExit(st)
  \/ EnvExitStatus
  \/ EnvEof
  \/ EnvClose
  \/ Tick

Spec == Init /\ [][Next]_vars

\* -------------------------------------- the remote handle, scheduled
\* The steps of the drain worker thread.
WorkerStep ==
  \/ WorkerSeeDone
  \/ WorkerPollRecv
  \/ WorkerPollWrite
  \/ WorkerGraceRecv
  \/ WorkerGraceWrite
  \/ WorkerGraceSleep

\* The steps of the finally block of ParamikoRemotePopen.run.
RemoteTeardownStep ==
  \/ TeardownEof
  \/ TeardownJoin
  \/ TeardownStatus

\* The outputs followed under scheduling: none, one byte, one two-byte
\* character (which a recv may split).
ShortOutputs == {<<>>, <<"a">>, <<"L", "C">>}

\* A remote handle opened by "with server.run(..)".
RemoteInit == Init /\ ~local /\ wrapper = "none" /\ out \in ShortOutputs

RemoteNext ==
  \/ SshServerRun
  \/ SshServerRunFail
  \/ StartWorker
  \/ ExecCommand
  \/ ExecCommandFail
  \/ BlockWait
  \/ RemoteWaitReturn
  \/ BlockStop
  \/ BlockEnd
  \/ \E e \in {"Exception", "BaseException"} : BlockRaise(e)
  \/ TeardownEof
  \/ TeardownJoin
  \/ TeardownStatus
  \/ WorkerSeeDone
  \/ WorkerPollRecv
  \/ WorkerPollWrite
  \/ WorkerGraceRecv
  \/ WorkerGraceWrite
  \/ WorkerGraceSleep
  \/ EnvOutput
  \/ \E st \in Statuses : CmdExit(st)
  \/ EnvExitStatus
  \/ EnvEof
  \/ EnvClose
  \/ Tick

\* The two threads are scheduled and the clock goes on: a thread that has
\* a step to take takes it, a sleep or a join with a timeout ends.
RemoteFairSpec ==
  /\ RemoteInit
  /\ [][RemoteNext]_vars
  /\ WF_vars(WorkerStep)
  /\ WF_vars(RemoteTeardownStep)
  /\ WF_vars(Tick)

\* ===================================================== readiness wait
\* Bounds: the largest timeout and the largest sleep_duration tried, in
\* units of 0.5 s.
MaxTimeout == 4
MaxSleep == 2
\* duration = 0.5 in wait_ready: one unit.
WaitReadyDuration == 1

\* The command handle left aside: no command is run.
HandleIdle ==
  /\ local = FALSE /\ wrapper = "none" /\ sinkText = FALSE /\ out = <<>>
  /\ cpc = "init" /\ waited = FALSE /\ stopCalled = FALSE
  /\ pend = "none" /\ raised = "none"
  /\ cmd = "none" /\ cmdStatus = Unset /\ stopSignal = "none"
  /\ submitted = FALSE /\ arrived = 0 /\ inbuf = <<>>
  /\ exitStatus = Unset /\ statusReady = FALSE /\ eofReceived = FALSE
  /\ closed = FALSE /\ returncode = Unset /\ reaped = FALSE
  /\ wpc = "none" /\ wbuf = <<>> /\ graceT = 0 /\ joinT = 0
  /\ sink = <<>> /\ workers = 0 /\ readers = {} /\ writers = {}
  /\ tdLog = <<>>

handleVars == <<local, wrapper, sinkText, out, callerVars, chanVars, cmdVars,
                workerVars>>

\* What a step of the readiness wait leaves alone.
notWait == <<handleVars, fsVars, extVars>>

\* wait_ready(timeout): done = False, count = 0.0, duration = 0.5.
WaitReady(t) ==
  /\ waitPc = "idle"
  /\ waitFn' = "wait_ready"
  /\ timeout' = t
  /\ duration' = WaitReadyDuration
  /\ count' = 0
  /\ waitPc' = "poll"
  /\ UNCHANGED <<targetReady, neverReady, notWait>>

\* wait_with_cb(cb, timeout, sleep_duration): done = False, count = 0.0.
WaitWithCb(t, d) ==
  /\ waitPc = "idle"
  /\ waitFn' = "wait_with_cb"
  /\ timeout' = t
  /\ duration' = d
  /\ count' = 0
  /\ waitPc' = "poll"
  /\ UNCHANGED <<targetReady, neverReady, notWait>>

\* The poll finds the target ready (get_last_period() returns, cb() is
\* true): done = True and the wait returns.
PollReady ==
  /\ waitPc = "poll"
  /\ targetReady
  /\ waitPc' = "returned"
  /\ UNCHANGED <<waitFn, timeout, duration, count, targetReady, neverReady,
                 notWait>>

\* The poll finds the target not ready (TypeError or ConnectionError from
\* get_last_period(), a false cb()).
PollNotReady ==
  /\ waitPc = "poll"
  /\ ~targetReady
  /\ waitPc' = "sleep"
  /\ UNCHANGED <<waitFn, timeout, duration, count, targetReady, neverReady,
                 notWait>>

\* The poll fails otherwise (another exception of get_last_period() or of
\* cb()): it is not caught.  Not a failure of a target that is merely never
\* ready.
PollError ==
  /\ waitPc = "poll"
  /\ ~neverReady
  /\ waitPc' = "error"
  /\ UNCHANGED <<waitFn, timeout, duration, count, targetReady, neverReady,
                 notWait>>

\* if count > timeout
TimedOut(c, t) == c > t

\* time.sleep(duration); count += duration; raise TimeoutError if the
\* budget is exceeded, else poll again.
Sleep ==
  /\ waitPc = "sleep"
  /\ count' = count + duration
  /\ waitPc' = IF TimedOut(count', timeout) THEN "timed_out" ELSE "poll"
  /\ UNCHANGED <<waitFn, timeout, duration, targetReady, neverReady, notWait>>

\* The target becomes ready.
TargetBecomesReady ==
  /\ ~neverReady
  /\ ~targetReady
  /\ waitPc \in {"poll", "sleep"}
  /\ targetReady' = TRUE
  /\ UNCHANGED <<waitFn, timeout, duration, count, waitPc, neverReady, notWait>>

WaitInit == HandleIdle /\ WaitStart /\ FsIdle /\ ExtIdle

WaitNext ==
  \/ \E t \in 0..MaxTimeout : WaitReady(t)
  \/ \E t \in 0..MaxTimeout, d \in 0..MaxSleep : WaitWithCb(t, d)
  \/ PollReady
  \/ PollNotReady
  \/ PollError
  \/ Sleep
  \/ TargetBecomesReady

WaitSpec == WaitInit /\ [][WaitNext]_vars

\* The thread running the wait keeps running.
WaitFairSpec == WaitSpec /\ WF_vars(PollReady \/ PollNotReady \/ Sleep)

\* ============================== servers, paths and file systems: calls
\* What a call on a server or on a path leaves alone.
notFs == <<handleVars, waitVars, extVars>>

\* What is at ps on h before a call.
Kind(h, ps) ==
  IF IsDir(h, ps) THEN "dir"
  ELSE IF IsFile(h, ps) THEN "file"
  ELSE IF IsDir(h, Parent(ps)) THEN "absent"
  ELSE "noparent"

\* The record of a call.
Call(o, sv, k, r, pr, a, b, w) ==
  [op |-> o, s |-> sv, kw |-> k, res |-> r, prims |-> pr, src |-> a,
   dst |-> b, was |-> w]

\* A call by instance s was routed to backend b ("local" or "ssh").
Routed(s, b) == [used EXCEPT ![s] = @ \cup {b}]

\* The clock moves on.
ClockTick ==
  /\ now < MaxStamp
  /\ now' = now + 1
  /\ UNCHANGED <<optsLocal, server, cleanup, dirs, files, held, used, last,
                 nOps, nJoins, cur, notFs>>

\* SshServer.mkdir(folder, exist_ok) on host h: with exist_ok, open(folder, "r")
\* is tried first and mkdir is called only on FileNotFoundError; the SFTP
\* mkdir fails on an existing name and on a missing parent.
SshMkdirRes(h, ps, existOk) ==
  IF existOk /\ Exists(h, ps) THEN "ok"
  ELSE IF Kind(h, ps) = "absent" THEN "created"
  ELSE "IOError"

\* Variant: mkdtemp creating its directory with exist_ok.
MkdtempExistOkTrue == TRUE

\* self.mkdir(str(tmp_folder)) in SshServer.mkdtemp: exist_ok is left at
\* its default.
MkdtempExistOk == FALSE

\* Server.mkdtemp(prefix), remote: the name is the prefix and the clock's
\* reading; the path is registered and returned only if mkdir succeeded.
SshServerMkdtemp(s, prefix) ==
  LET ps == <<Seg(RemotePrefix(prefix), now)>>
      r == SshMkdirRes(s, ps, MkdtempExistOk)
      obj == PathObj("RemotePath", s, s, ps)
  IN /\ ~optsLocal[s]
     /\ nOps < MaxOps
     /\ dirs' = IF r = "created" THEN [dirs EXCEPT ![s] = @ \cup {ps}] ELSE dirs
     /\ cleanup' = IF r = "IOError" THEN cleanup
                   ELSE [cleanup EXCEPT ![s] = Append(@, obj)]
     /\ held' = IF r = "IOError" THEN held ELSE held \cup {obj}
     /\ used' = Routed(s, "ssh")
     /\ last' = Call("mkdtemp", s, "none", IF r = "IOError" THEN r ELSE "ok",
                     <<>>, NoPath, obj, Kind(s, ps))
     /\ nOps' = nOps + 1
     /\ UNCHANGED <<optsLocal, server, files, now, nJoins, cur, notFs>>

\* Variant: a local mkdtemp that returns its directory without registering
\* it.
LocalMkdtempUnregistered(s, prefix) ==
  /\ optsLocal[s]
  /\ nOps < MaxOps
  /\ \E k \in 1..MaxStamp :
       LET ps == <<Seg(LocalPrefix(prefix), k)>>
           obj == PathObj("Path", "unset", s, ps)
       IN /\ ~Exists(LocalHost, ps)
          /\ dirs' = [dirs EXCEPT ![LocalHost] = @ \cup {ps}]
          /\ held' = held \cup {obj}
          /\ last' = Call("mkdtemp", s, "none", "ok", <<>>, NoPath, obj,
                          Kind(LocalHost, ps))
  /\ used' = Routed(s, "local")
  /\ nOps' = nOps + 1
  /\ UNCHANGED <<optsLocal, server, cleanup, files, now, nJoins, cur, notFs>>

\* Server.mkdtemp(prefix), local: tempfile.mkdtemp picks a name that does
\* not exist and creates it.
LocalMkdtemp(s, prefix) ==
  /\ optsLocal[s]
  /\ nOps < MaxOps
  /\ \E k \in 1..MaxStamp :
       LET ps == <<Seg(LocalPrefix(prefix), k)>>
           obj == PathObj("Path", "unset", s, ps)
       IN /\ ~Exists(LocalHost, ps)
          /\ dirs' = [dirs EXCEPT ![LocalHost] = @ \cup {ps}]
          /\ cleanup' = [cleanup EXCEPT ![s] = Append(@, obj)]
          /\ held' = held \cup {obj}
          /\ last' = Call("mkdtemp", s, "none", "ok", <<>>, NoPath, obj,
                          Kind(LocalHost, ps))
  /\ used' = Routed(s, "local")
  /\ nOps' = nOps + 1
  /\ UNCHANGED <<optsLocal, server, files, now, nJoins, cur, notFs>>

\* A directory mkdtemp returned.
IsTmpDir(q) == Len(q.parts) = 1 /\ q.origin # "none"

\* The caller composes a path with a relative segment, starting from a
\* directory mkdtemp returned and going on from the path composed last.
Join(q, n) ==
  /\ IsTmpDir(q) \/ q = cur
  /\ q \in held \cup ({cur} \ {NoPath})
  /\ nJoins < MaxJoins
  /\ cur' = TrueDiv(q, n)
  /\ nJoins' = nJoins + 1
  /\ UNCHANGED <<optsLocal, server, cleanup, dirs, files, held, now, used,
                 last, nOps, notFs>>

\* Path.mkdir(parents=True, exist_ok=True) on the local host.
LocalMkdirRes(ps) ==
  IF \E a \in Ancestors(ps) : IsFile(LocalHost, a) THEN "FileExistsError"
  ELSE IF IsDir(LocalHost, ps) THEN "ok"
  ELSE "created"

\* Server.mkdir(folder): the method takes the folder only, so a call that
\* passes exist_ok ends in TypeError before anything is done.  Local:
\* folder.mkdir(parents=True, exist_ok=True); remote:
\* self.server.mkdir(folder, exist_ok=True).
ServerMkdir(s, q, kw) ==
  LET h == HostOf(s)
      r == IF kw # "default" THEN "TypeError"
           ELSE IF optsLocal[s] THEN LocalMkdirRes(q.parts)
           ELSE SshMkdirRes(s, q.parts, TRUE)
  IN /\ q \in held
     /\ nOps < MaxOps
     /\ dirs' = IF r # "created" THEN dirs
                ELSE IF optsLocal[s]
                     THEN [dirs EXCEPT ![h] = @ \cup Ancestors(q.parts)]
                     ELSE [dirs EXCEPT ![h] = @ \cup {q.parts}]
     /\ used' = IF kw # "default" THEN used
                ELSE Routed(s, IF optsLocal[s] THEN "local" ELSE "ssh")
     /\ last' = Call("Server.mkdir", s, kw,
                     IF r = "created" THEN "ok" ELSE r, <<>>, NoPath, q,
                     Kind(h, q.parts))
     /\ nOps' = nOps + 1
     /\ UNCHANGED <<optsLocal, server, cleanup, files, held, now, nJoins, cur, notFs>>

\* SshServer.mkdir(folder, exist_ok), called on the remote backend itself.
SshServerMkdir(s, q, existOk) ==
  LET r == SshMkdirRes(s, q.parts, existOk)
  IN /\ ~optsLocal[s]
     /\ q \in held
     /\ nOps < MaxOps
     /\ dirs' = IF r = "created" THEN [dirs EXCEPT ![s] = @ \cup {q.parts}] ELSE dirs
     /\ used' = Routed(s, "ssh")
     /\ last' = Call("SshServer.mkdir", s, IF existOk THEN "true" ELSE "false",
                     IF r = "created" THEN "ok" ELSE r, <<>>, NoPath, q,
                     Kind(s, q.parts))
     /\ nOps' = nOps + 1
     /\ UNCHANGED <<optsLocal, server, cleanup, files, held, now, nJoins, cur, notFs>>

\* Reading the file at as_ on hs and writing it at bs on hd.
TransferRes(hs, as_, hd, bs) ==
  IF ~IsFile(hs, as_) THEN "FileNotFoundError"
  ELSE IF Kind(hd, bs) \in {"absent", "file"} THEN "ok"
  ELSE "IOError"

TransferFiles(hs, as_, hd, bs) ==
  IF TransferRes(hs, as_, hd, bs) = "ok"
  THEN [files EXCEPT ![hd] = WithFile(hd, bs, ContentOf(hs, as_))]
  ELSE files

\* shutil.copy(src, dst): a destination that is a directory receives the
\* file under the source's name.
ShutilTarget(as_, bs) ==
  IF IsDir(LocalHost, bs) THEN Append(bs, as_[Len(as_)]) ELSE bs

\* Server.send_file(src, dst) of instance s.  Local: shutil.copy(src, dst).
\* Remote: SshServer.send_file, ftp_client.put(str(src), str(dst)): the
\* source is read on the local host, whatever the class of src.
SendFileTarget(s, a, b) ==
  IF optsLocal[s] THEN ShutilTarget(a.parts, b.parts) ELSE b.parts
SendFileRes(s, a, b) ==
  TransferRes(LocalHost, a.parts, HostOf(s), SendFileTarget(s, a, b))
SendFileFiles(s, a, b) ==
  TransferFiles(LocalHost, a.parts, HostOf(s), SendFileTarget(s, a, b))

ServerSendFile(s, a, b) ==
  /\ a \in held /\ b \in held
  /\ IsFile(LocalHost, a.parts)
  /\ nOps < MaxOps
  /\ files' = SendFileFiles(s, a, b)
  /\ used' = Routed(s, IF optsLocal[s] THEN "local" ELSE "ssh")
  /\ last' = Call("send_file", s, "none", SendFileRes(s, a, b), <<>>, a, b,
                  Kind(HostOf(s), SendFileTarget(s, a, b)))
  /\ nOps' = nOps + 1
  /\ UNCHANGED <<optsLocal, server, cleanup, dirs, held, now, nJoins, cur, notFs>>

\* Server.open(path, "w+") and a write of c: open(path, mode) locally,
\* self.server.open(str(path), mode) remotely.
OpenWriteRes(s, q) ==
  IF Kind(HostOf(s), q.parts) \in {"absent", "file"} THEN "ok" ELSE "IOError"

ServerOpenWrite(s, q, c) ==
  /\ q \in held
  /\ nOps < MaxOps
  /\ files' = IF OpenWriteRes(s, q) = "ok"
              THEN [files EXCEPT ![HostOf(s)] = WithFile(HostOf(s), q.parts, c)]
              ELSE files
  /\ used' = Routed(s, IF optsLocal[s] THEN "local" ELSE "ssh")
  /\ last' = Call("open", s, "none", OpenWriteRes(s, q), <<>>, NoPath, q,
                  Kind(HostOf(s), q.parts))
  /\ nOps' = nOps + 1
  /\ UNCHANGED <<optsLocal, server, cleanup, dirs, held, now, nJoins, cur, notFs>>

\* Variant: a remove that calls os.unlink whatever the backend.
ServerRemoveUnlink(s, q) ==
  /\ q \in held
  /\ nOps < MaxOps
  /\ files' = [files EXCEPT ![LocalHost] = {f \in @ : f[1] # q.parts}]
  /\ used' = Routed(s, "local")
  /\ last' = Call("remove", s, "none",
                  IF IsFile(LocalHost, q.parts) THEN "ok" ELSE "IOError", <<>>,
                  NoPath, q, Kind(LocalHost, q.parts))
  /\ nOps' = nOps + 1
  /\ UNCHANGED <<optsLocal, server, cleanup, dirs, held, now, nJoins, cur, notFs>>

\* Server.remove(path): os.unlink(path) locally, self.server.remove(str(path))
\* remotely; both remove a file and fail on anything else.
ServerRemove(s, q) ==
  LET h == HostOf(s)
  IN /\ q \in held
     /\ nOps < MaxOps
     /\ files' = [files EXCEPT ![h] = {f \in @ : f[1] # q.parts}]
     /\ used' = Routed(s, IF optsLocal[s] THEN "local" ELSE "ssh")
     /\ last' = Call("remove", s, "none",
                     IF IsFile(h, q.parts) THEN "ok" ELSE "IOError", <<>>,
                     NoPath, q, Kind(h, q.parts))
     /\ nOps' = nOps + 1
     /\ UNCHANGED <<optsLocal, server, cleanup, dirs, held, now, nJoins, cur, notFs>>

\* Server.run(cmd): subprocess.Popen locally, self.server.run remotely.
\* (The handle it returns is followed in Spec.)
ServerRunOn(s) ==
  /\ nOps < MaxOps
  /\ used' = Routed(s, IF optsLocal[s] THEN "local" ELSE "ssh")
  /\ last' = Call("run", s, "none", "ok", <<>>, NoPath, NoPath, "none")
  /\ nOps' = nOps + 1
  /\ UNCHANGED <<optsLocal, server, cleanup, dirs, files, held, now, nJoins, cur, notFs>>

\* Server.stop(process): process.terminate() locally, nothing remotely.
ServerStopOn(s) ==
  /\ nOps < MaxOps
  /\ used' = IF optsLocal[s] THEN Routed(s, "local") ELSE used
  /\ last' = Call("stop", s, "none", "ok", <<>>, NoPath, NoPath, "none")
  /\ nOps' = nOps + 1
  /\ UNCHANGED <<optsLocal, server, cleanup, dirs, files, held, now, nJoins, cur, notFs>>

\* The test ends and the instance is dropped.  Server and SshServer define
\* no close, no __exit__ and no __del__, and nothing reads _cleanup: no
\* removal is attempted, and whether the SSH connection of a remote
\* instance is closed is left to the interpreter (kw: "open" or "closed").
ServerDrop(s) ==
  /\ nOps < MaxOps
  /\ \E c \in (IF optsLocal[s] THEN {"none"} ELSE {"open", "closed"}) :
       last' = Call("del", s, c, "ok", <<>>, NoPath, NoPath, "none")
  /\ nOps' = nOps + 1
  /\ UNCHANGED <<optsLocal, server, cleanup, dirs, files, held, now, used,
                 nJoins, cur, notFs>>

\* Variant: the owners of two remote paths never told apart.
SameServerAlways(a, b) == TRUE

\* src.server == dst.server
SameServer(a, b) == a.server = b.server

\* The branch copy_file takes: the match on (src, dst), cases in order.
\* Reading the server attribute of an object that has none raises
\* AttributeError.
CopyCase(a, b) ==
  IF a.cls = "RemotePath" /\ b.cls = "RemotePath"
  THEN IF a.server = "unset" \/ b.server = "unset" THEN "no_server"
       ELSE IF SameServer(a, b) THEN "same" ELSE "different"
  ELSE IF b.cls = "RemotePath"
  THEN IF b.server = "unset" THEN "no_server" ELSE "upload"
  ELSE IF a.cls = "RemotePath" THEN "download"
  ELSE "local"

\* The host and the place copy_file writes to.
CopyDstHost(a, b) ==
  IF b.cls = "RemotePath" /\ b.server # "unset" THEN HostOf(b.server) ELSE LocalHost
CopyTarget(a, b) ==
  IF CopyCase(a, b) = "local" THEN ShutilTarget(a.parts, b.parts)
  ELSE IF CopyCase(a, b) = "upload" THEN SendFileTarget(b.server, a, b)
  ELSE b.parts

\* with server.open(src, "r") as fp: with server.open(dst, "w+") as fp2:
\* shutil.copyfileobj(fp, fp2).  Opening the destination truncates it, so a
\* file copied onto itself ends empty.
StreamRes(h, as_, bs) == TransferRes(h, as_, h, bs)
StreamFiles(h, as_, bs) ==
  IF StreamRes(h, as_, bs) # "ok" THEN files
  ELSE IF as_ = bs THEN [files EXCEPT ![h] = WithFile(h, bs, "empty")]
  ELSE TransferFiles(h, as_, h, bs)

\* shutil.copy(src, dst): refuses to copy a file onto itself.
ShutilRes(as_, bs) ==
  IF IsFile(LocalHost, as_) /\ ShutilTarget(as_, bs) = as_ THEN "SameFileError"
  ELSE TransferRes(LocalHost, as_, LocalHost, ShutilTarget(as_, bs))
ShutilFiles(as_, bs) ==
  IF ShutilRes(as_, bs) = "ok"
  THEN TransferFiles(LocalHost, as_, LocalHost, ShutilTarget(as_, bs))
  ELSE files

\* How copy_file(src, dst) ends.  Server has no get_file method, so the
\* download branch ends in AttributeError.
CopyRes(a, b) ==
  CASE CopyCase(a, b) = "no_server" -> "AttributeError"
    [] CopyCase(a, b) = "same" -> StreamRes(HostOf(a.server), a.parts, b.parts)
    [] CopyCase(a, b) = "different" -> "NotImplementedError"
    [] CopyCase(a, b) = "upload" -> SendFileRes(b.server, a, b)
    [] CopyCase(a, b) = "download" -> "AttributeError"
    [] CopyCase(a, b) = "local" -> ShutilRes(a.parts, b.parts)

\* The transfer primitives copy_file calls, each with the instance it is
\* called on ("none" for the local file system).
CopyPrims(a, b) ==
  CASE CopyCase(a, b) = "same" -> << <<a.server, "open">> >>
    [] CopyCase(a, b) = "upload" -> << <<b.server, "send_file">> >>
    [] CopyCase(a, b) = "local" -> << <<"none", "shutil.copy">> >>
    [] OTHER -> <<>>

CopyFiles(a, b) ==
  CASE CopyCase(a, b) = "same" -> StreamFiles(HostOf(a.server), a.parts, b.parts)
    [] CopyCase(a, b) = "upload" -> SendFileFiles(b.server, a, b)
    [] CopyCase(a, b) = "local" -> ShutilFiles(a.parts, b.parts)
    [] OTHER -> files

CopyUsed(a, b) ==
  CASE CopyCase(a, b) = "same" ->
         Routed(a.server, IF optsLocal[a.server] THEN "local" ELSE "ssh")
    [] CopyCase(a, b) = "upload" ->
         Routed(b.server, IF optsLocal[b.server] THEN "local" ELSE "ssh")
    [] OTHER -> used

\* copy_file(src, dst)
CopyFile(a, b) ==
  /\ a \in held /\ b \in held
  /\ nOps < MaxOps
  /\ files' = CopyFiles(a, b)
  /\ used' = CopyUsed(a, b)
  /\ last' = Call("copy_file", "none", CopyCase(a, b), CopyRes(a, b),
                  CopyPrims(a, b), a, b,
                  Kind(CopyDstHost(a, b), CopyTarget(a, b)))
  /\ nOps' = nOps + 1
  /\ UNCHANGED <<optsLocal, server, cleanup, dirs, held, now, nJoins, cur, notFs>>

FsInit == HandleIdle /\ WaitIdle /\ FsStart /\ ExtIdle

\* Temporary directories and path composition.
PathNext ==
  \/ ClockTick
  \/ \E s \in Servers, prefix \in Prefixes : SshServerMkdtemp(s, prefix)
  \/ \E s \in Servers, prefix \in Prefixes : LocalMkdtemp(s, prefix)
  \/ \E q \in held \cup {cur}, n \in Names : Join(q, n)

PathSpec == FsInit /\ [][PathNext]_vars

\* The calls on a Server instance.
ServerNext ==
  \/ \E s \in Servers, prefix \in Prefixes : SshServerMkdtemp(s, prefix)
  \/ \E s \in Servers, prefix \in Prefixes : LocalMkdtemp(s, prefix)
  \/ \E s \in Servers, q \in held, kw \in {"default", "false"} : ServerMkdir(s, q, kw)
  \/ \E s \in Servers, q \in held, e \in BOOLEAN : SshServerMkdir(s, q, e)
  \/ \E s \in Servers, a \in held, b \in held : ServerSendFile(s, a, b)
  \/ \E s \in Servers, q \in held, c \in Contents : ServerOpenWrite(s, q, c)
  \/ \E s \in Servers, q \in held : ServerRemove(s, q)
  \/ \E s \in Servers : ServerRunOn(s)
  \/ \E s \in Servers : ServerStopOn(s)
  \/ \E s \in Servers : ServerDrop(s)

ServerSpec == FsInit /\ [][ServerNext]_vars

\* copy_file between the paths the caller holds or has just made.
CopyNext ==
  \/ \E s \in Servers, prefix \in Prefixes : SshServerMkdtemp(s, prefix)
  \/ \E s \in Servers, prefix \in Prefixes : LocalMkdtemp(s, prefix)
  \/ \E a \in held, b \in held : CopyFile(a, b)

CopySpec == FsInit /\ [][CopyNext]_vars

\* ============================== the command string of SshServer.run
\* Bound: the number of environment variables passed.
MaxEnv == 2

\* A string is a sequence of pieces: a word, a space, the operator &&, and
\* the text NAME='VALUE'.
Word(w) == <<"word", w>>
Sp == <<" ">>
AndAnd == <<"&&">>
Assign(k, v) == <<"=", k, v>>

\* The arguments tried.  cmd is a list of strings, of which run keeps the
\* first; cwd is None, empty or a directory; env is None or a dict, kept
\* as its items in insertion order.
EnvNames == {"A", "B"}
EnvValues == {"1", "2"}
CmdStrings == {<<Word("ls")>>, <<Word("git"), Sp, Word("clone")>>}
CmdLists == {<<c>> : c \in CmdStrings} \cup {<<c, <<Word("x")>> >> : c \in CmdStrings}
Cwds == {"None", "", "d"}
EnvItems ==
  {e \in UNION {[1..n -> EnvNames \X EnvValues] : n \in 0..MaxEnv} :
     \A i, j \in 1..Len(e) : i # j => e[i][1] # e[j][1]}
Envs == {[given |-> FALSE, items |-> <<>>]} \cup
        {[given |-> TRUE, items |-> e] : e \in EnvItems}

RECURSIVE JoinSp(_)
\* " ".join(strings)
JoinSp(strs) ==
  IF strs = <<>> THEN <<>>
  ELSE IF Len(strs) = 1 THEN strs[1]
  ELSE strs[1] \o <<Sp>> \o JoinSp(Tail(strs))

\* cmd_prefix: one f"{env_var}='{env_value}'" per item of env.
CmdPrefix(items) == [i \in 1..Len(items) |-> <<Assign(items[i][1], items[i][2])>>]

\* if env: cmd = " ".join(cmd_prefix) + " " + cmd
WithEnv(env, c) ==
  IF env.given /\ env.items # <<>>
  THEN JoinSp(CmdPrefix(env.items)) \o <<Sp>> \o c
  ELSE c

\* if cwd: cmd = f"cd {cwd} && " + cmd
WithCwd(cwd, c) ==
  IF cwd \notin {"None", ""}
  THEN <<Word("cd"), Sp, Word(cwd), Sp, AndAnd, Sp>> \o c
  ELSE c

\* Variant: the directory change put in front before the assignments are.
RunCmdEnvOutside(cmds, cwd, env) == WithEnv(env, WithCwd(cwd, cmds[1]))

\* The string SshServer.run hands to proc.run: cmd = cmd[0], then the
\* assignments, then the directory change.
RunCmd(cmds, cwd, env) == WithCwd(cwd, WithEnv(env, cmds[1]))

\* SshServer.run(cmd, cwd, env) builds its string and submits it.
SshServerRunCmd ==
  /\ callArgs.fn = "SshServer.run"
  /\ callRes.st = "none"
  /\ callRes' = [st |-> "ok", cmd |-> RunCmd(callArgs.cmd, callArgs.cwd, callArgs.env)]
  /\ UNCHANGED <<callArgs, handleVars, waitVars, fsVars, instVars, cuVars, sessVars, tmVars>>

CmdInit ==
  /\ HandleIdle /\ WaitIdle /\ FsIdle /\ InstIdle /\ CuIdle /\ SessIdle /\ TermIdle
  /\ callArgs \in [fn : {"SshServer.run"}, cmd : CmdLists, cwd : Cwds, env : Envs]
  /\ callRes = [st |-> "none"]

CmdNext == SshServerRunCmd

CmdSpec == CmdInit /\ [][CmdNext]_vars

\* The remote shell running a submitted string (channel.exec_command):
\* a list of simple commands joined by &&, each a run of assignments and
\* then words.  Assignments in front of a command are in the environment
\* of that command alone; assignments with no command stay in the shell;
\* cd changes the directory of what follows.
ShTokens(str) == SelectSeq(str, LAMBDA piece : piece # Sp)
IsAssign(piece) == piece[1] = "="
\* The words of the first simple command of toks.
RECURSIVE ShWords(_)
ShWords(toks) ==
  IF toks = <<>> \/ Head(toks) = AndAnd THEN <<>>
  ELSE <<Head(toks)>> \o ShWords(Tail(toks))
\* What follows the first && of toks.
RECURSIVE ShAfter(_)
ShAfter(toks) ==
  IF toks = <<>> THEN <<>>
  ELSE IF Head(toks) = AndAnd THEN Tail(toks)
  ELSE ShAfter(Tail(toks))

RECURSIVE ShEval(_, _, _, _)
\* The commands run, in order, each with its directory and environment,
\* from the tokens left, the current directory, the shell's own variables
\* and the assignments read in front of the current command.
ShEval(toks, dir, shellEnv, tmp) ==
  IF toks = <<>> THEN <<>>
  ELSE IF IsAssign(Head(toks))
  THEN IF Len(toks) = 1 \/ toks[2] = AndAnd
       THEN ShEval(ShAfter(toks), dir,
                   shellEnv \cup tmp \cup {<<Head(toks)[2], Head(toks)[3]>>}, {})
       ELSE ShEval(Tail(toks), dir, shellEnv,
                   tmp \cup {<<Head(toks)[2], Head(toks)[3]>>})
  ELSE IF Head(toks) = Word("cd") /\ Len(ShWords(toks)) = 2
  THEN ShEval(ShAfter(toks), toks[2][2], shellEnv, {})
  ELSE <<[argv |-> ShWords(toks), dir |-> dir, env |-> shellEnv \cup tmp,
          shell |-> shellEnv]>>
       \o ShEval(ShAfter(toks), dir, shellEnv, {})

\* ===================================== massa_py.operations: roll orders
RECURSIVE VarintEncode(_)
\* varint.encode(n): seven bits per byte, low bits first, the high bit set
\* on every byte but the last.
VarintEncode(n) ==
  IF n \div 128 = 0 THEN <<n % 128>>
  ELSE <<(n % 128) + 128>> \o VarintEncode(n \div 128)

\* Typed.type_id(): the id of the operation's class.
TypeId(cls) ==
  CASE cls = "Transaction" -> 0
    [] cls = "RollBuy" -> 1
    [] cls = "RollSell" -> 2
    [] cls = "ExecuteSC" -> 3
    [] cls = "CallSC" -> 4

\* RollBuy.serialize(), RollSell.serialize()
RollSerialize(roll_count) == VarintEncode(roll_count)

\* Operation.serialize(), over a roll operation of class cls.
OperationSerialize(fee, expire_period, cls, roll_count) ==
  VarintEncode(fee) \o VarintEncode(expire_period) \o VarintEncode(TypeId(cls))
  \o RollSerialize(roll_count)

\* Operation.sign: the signature, by the sender's key, of the hash of the
\* chain id, the creator's key and the content (kept as what was signed).
OperationSign(content, creator_public_key, sender_private_key, chainID) ==
  <<"signature", sender_private_key, chainID, creator_public_key, content>>

\* OperationInput(..).__dict__
OperationInput(creator_public_key, content, sender_private_key, chainID) ==
  [st |-> "ok",
   creator_public_key |-> creator_public_key,
   signature |-> OperationSign(content, creator_public_key, sender_private_key, chainID),
   serialized_content |-> content]

\* A call of a roll builder.  chainID is a required parameter: a call
\* that passes the five other arguments only ends in TypeError.
CreateRoll(cls) ==
  LET a == callArgs
  IN /\ callRes.st = "none"
     /\ callRes' =
          IF ~a.chainGiven THEN [st |-> "TypeError"]
          ELSE OperationInput(a.creator_public_key,
                              OperationSerialize(a.fee, a.expire_period, cls, a.roll_count),
                              a.sender_private_key, a.chainID)
     /\ UNCHANGED <<callArgs, handleVars, waitVars, fsVars, instVars, cuVars, sessVars, tmVars>>

\* create_roll_buy(sender_private_key, creator_public_key, fee,
\* expire_period, roll_count, chainID)
CreateRollBuy == callArgs.fn = "create_roll_buy" /\ CreateRoll("RollBuy")

\* create_roll_sell, with the same parameters.
CreateRollSell == callArgs.fn = "create_roll_sell" /\ CreateRoll("RollSell")

\* The calls tried: fees, periods and roll counts of one, two and three
\* varint bytes, with and without a chain id.
OpInit ==
  /\ HandleIdle /\ WaitIdle /\ FsIdle /\ InstIdle /\ CuIdle /\ SessIdle /\ TermIdle
  /\ callArgs \in [fn : {"create_roll_buy", "create_roll_sell"},
                   sender_private_key : {"S12m8"},
                   creator_public_key : {"P1yXu"},
                   fee : {0, 100, 128, 300},
                   expire_period : {10, 200},
                   roll_count : {5, 16384},
                   chainGiven : BOOLEAN,
                   chainID : {77}]
  /\ callRes = [st |-> "none"]

OpNext == CreateRollBuy \/ CreateRollSell

OpSpec == OpInit /\ [][OpNext]_vars

\* ======================================================== installers
\* A manifest entry: its key, the class of its value (Path or SrcDst) and
\* the relative path it names, as segments.
Entry(k, c, r) == [key |-> k, cls |-> c, rel |-> r]

\* CompileOpts.config_files, in order.
ConfigFiles ==
  << Entry("config.toml", "Path", <<"massa-node", "base_config", "config.toml">>),
     Entry("initial_ledger.json", "Path",
           <<"massa-node", "base_config", "initial_ledger.json">>),
     Entry("initial_peers.json", "Path",
           <<"massa-node", "base_config", "initial_peers.json">>),
     Entry("initial_rolls.json", "Path",
           <<"massa-node", "base_config", "initial_rolls.json">>),
     Entry("deferred_credits.json", "Path",
           <<"massa-node", "base_config", "deferred_credits.json">>),
     Entry("node_privkey.key", "Path", <<"massa-node", "config", "node_privkey.key">>),
     Entry("abi_gas_costs.json", "Path",
           <<"massa-node", "base_config", "gas_costs", "abi_gas_costs.json">>),
     Entry("client/config.toml", "Path",
           <<"massa-client", "base_config", "config.toml">>) >>

\* Node.__init__: self._to_install, the two binaries and then the
\* configuration files.
NodeToInstall ==
  << Entry("massa_node", "Path", <<"target", "debug", "massa-node">>),
     Entry("massa_client", "Path", <<"target", "debug", "massa-client">>) >>
  \o ConfigFiles

\* LedgerEditor.__init__: self._to_install.
LedgerEditorToInstall ==
  << Entry("massa-ledger-editor", "Path", <<"target", "debug", "massa-ledger-editor">>) >>
  \o ConfigFiles

\* The to_install arguments tried for RemoteBin._install: up to two
\* entries, each a SrcDst or a plain Path.
RemoteBinToInstall ==
  { <<>>,
    << Entry("tool", "SrcDst", <<"bin", "tool">>) >>,
    << Entry("tool", "SrcDst", <<"bin", "tool">>),
       Entry("conf", "SrcDst", <<"etc", "conf">>) >>,
    << Entry("tool", "SrcDst", <<"bin", "tool">>),
       Entry("conf", "Path", <<"etc", "conf">>) >> }

\* Variant: the skeleton listed child first.
ToCreateChildFirst(cls) ==
  IF cls = "Node"
  THEN << <<"massa-node", "config">>, <<"massa-node">>, <<"massa-client">> >>
  ELSE <<>>

\* self._to_create
ToCreate(cls) ==
  IF cls = "Node"
  THEN << <<"massa-node">>, <<"massa-node", "config">>, <<"massa-client">> >>
  ELSE <<>>

\* The keys of a manifest.
KeysOf(m) == {m[i].key : i \in 1..Len(m)}

\* Where _install puts an entry: "skip" (continue), "TypeError" (the path
\* joined with the manifest itself, remote_bin.py:48), or a destination
\* relative to tmp_folder (<<>> is tmp_folder itself).
InstallDst(cls, e) ==
  CASE cls = "Node" ->
         IF e.key = "massa_node"
         THEN [to |-> "path", rel |-> <<"massa-node", e.rel[Len(e.rel)]>>]
         ELSE IF e.key = "massa_client"
         THEN [to |-> "path", rel |-> <<"massa-client", e.rel[Len(e.rel)]>>]
         ELSE IF e.key = "node_privkey.key" THEN [to |-> "skip", rel |-> <<>>]
         ELSE [to |-> "path", rel |-> e.rel]
    [] cls = "LedgerEditor" ->
         IF e.key = "massa-ledger-editor" THEN [to |-> "path", rel |-> <<>>]
         ELSE [to |-> "path", rel |-> e.rel]
    [] cls = "RemoteBin" ->
         IF e.cls = "SrcDst" THEN [to |-> "path", rel |-> e.rel]
         ELSE [to |-> "TypeError", rel |-> <<>>]

\* Server.mkdir(folder) in the install folder.  Local:
\* folder.mkdir(parents=True, exist_ok=True).  Remote: SshServer.mkdir with
\* exist_ok, which creates the one directory when nothing can be opened
\* there and fails when its parent is missing.
InstMkdirRes(ps) ==
  IF instLocal
  THEN IF \E a \in Ancestors(ps) : a \in instFiles THEN "FileExistsError" ELSE "ok"
  ELSE IF ps = <<>> \/ ps \in instDirs \/ ps \in instFiles THEN "ok"
  ELSE IF Parent(ps) = <<>> \/ Parent(ps) \in instDirs THEN "ok"
  ELSE "IOError"
\* Variant: a mkdir that reports success and creates nothing.
InstMkdirDirsNone(ps) == instDirs

InstMkdirDirs(ps) ==
  IF InstMkdirRes(ps) # "ok" \/ ps \in instFiles THEN instDirs
  ELSE IF instLocal THEN instDirs \cup Ancestors(ps)
  ELSE instDirs \cup ({ps} \ {<<>>})

\* copy_file(src, dst) for an entry: src = repo / rel is a plain Path, so
\* the file is read on the local host (shutil.copy, or send_file of the
\* remote server).  A destination that is a directory receives the file
\* under its name locally, and makes the SFTP put fail remotely.
InstIsDir(ps, ds) == ps = <<>> \/ ps \in ds
InstCopyRes(e, ps, ds) ==
  IF e.key \notin built THEN "FileNotFoundError"
  ELSE IF InstIsDir(ps, ds) /\ ~instLocal THEN "IOError"
  ELSE "ok"
InstCopyTarget(e, ps, ds) ==
  IF InstIsDir(ps, ds) THEN Append(ps, e.rel[Len(e.rel)]) ELSE ps

\* Variant: an installer that goes on to the next entry after a failed
\* copy.
AfterCopyGoOn(r, i) ==
  [pc |-> "entry", idx |-> i + 1, err |-> [err |-> "none", from |-> "none"]]

\* After copy_file: an exception leaves _install, otherwise the loop goes
\* on.
AfterCopy(r, i) ==
  IF r = "ok"
  THEN [pc |-> "entry", idx |-> i + 1, err |-> [err |-> "none", from |-> "none"]]
  ELSE [pc |-> "failed", idx |-> i, err |-> [err |-> r, from |-> "copy_file"]]

instConf == <<instCls, instLocal, toInstall, built>>
notInst == <<handleVars, waitVars, fsVars, pureVars, cuVars, sessVars, tmVars>>

\* _install is called: tmp_folder = self.server.mkdtemp(..).
InstallMkdtemp ==
  /\ instPc = "start"
  /\ instDirs' = {}
  /\ instPc' = IF ToCreate(instCls) = <<>> THEN "entry" ELSE "create"
  /\ idx' = 1
  /\ UNCHANGED <<instConf, instFiles, copies, instErr, installFolder, notInst>>

\* for to_create in self._to_create: self.server.mkdir(Path(f))
InstallCreate ==
  LET ps == ToCreate(instCls)[idx]
      r == InstMkdirRes(ps)
  IN /\ instPc = "create"
     /\ instDirs' = InstMkdirDirs(ps)
     /\ IF r # "ok"
        THEN /\ instPc' = "failed"
             /\ instErr' = [err |-> r, from |-> "mkdir"]
             /\ idx' = idx
        ELSE /\ instPc' = IF idx = Len(ToCreate(instCls)) THEN "entry" ELSE "create"
             /\ instErr' = instErr
             /\ idx' = IF idx = Len(ToCreate(instCls)) THEN 1 ELSE idx + 1
     /\ UNCHANGED <<instConf, instFiles, copies, installFolder, notInst>>

\* One turn of the loop over the manifest: the destination is computed,
\* its parent made, the file copied.
InstallEntry ==
  LET e == toInstall[idx]
      d == InstallDst(instCls, e)
      m == InstMkdirRes(Parent(d.rel))
      ds == InstMkdirDirs(Parent(d.rel))
      r == InstCopyRes(e, d.rel, ds)
      after == AfterCopy(r, idx)
  IN /\ instPc = "entry"
     /\ idx <= Len(toInstall)
     /\ CASE d.to = "skip" ->
               /\ idx' = idx + 1
               /\ UNCHANGED <<instPc, instDirs, instFiles, copies, instErr>>
          [] d.to = "TypeError" ->
               /\ instPc' = "failed"
               /\ instErr' = [err |-> "TypeError", from |-> "join"]
               /\ UNCHANGED <<idx, instDirs, instFiles, copies>>
          [] d.to = "path" /\ m # "ok" ->
               /\ instPc' = "failed"
               /\ instErr' = [err |-> m, from |-> "mkdir"]
               /\ UNCHANGED <<idx, instDirs, instFiles, copies>>
          [] d.to = "path" /\ m = "ok" ->
               /\ instDirs' = ds
               /\ copies' = Append(copies, e.key)
               /\ instFiles' = IF r = "ok"
                               THEN instFiles \cup {InstCopyTarget(e, d.rel, ds)}
                               ELSE instFiles
               /\ instPc' = after.pc
               /\ idx' = after.idx
               /\ instErr' = after.err
     /\ UNCHANGED <<instConf, installFolder, notInst>>

\* return tmp_folder, which the constructor keeps as self.install_folder.
InstallReturn ==
  /\ instPc = "entry"
  /\ idx > Len(toInstall)
  /\ instPc' = "done"
  /\ installFolder' = "tmp_folder"
  /\ UNCHANGED <<instConf, idx, instDirs, instFiles, copies, instErr, notInst>>

\* An installer about to install on a local or a remote server, from a
\* build tree that holds some of the manifest's files.
InstallInit ==
  /\ HandleIdle /\ WaitIdle /\ FsIdle /\ PureIdle /\ CuIdle /\ SessIdle /\ TermIdle
  /\ instCls \in {"Node", "LedgerEditor", "RemoteBin"}
  /\ instLocal \in BOOLEAN
  /\ toInstall \in (CASE instCls = "Node" -> {NodeToInstall}
                      [] instCls = "LedgerEditor" -> {LedgerEditorToInstall}
                      [] instCls = "RemoteBin" -> RemoteBinToInstall)
  /\ built \in SUBSET KeysOf(toInstall)
  /\ instPc = "start"
  /\ idx = 0
  /\ instDirs = {}
  /\ instFiles = {}
  /\ copies = <<>>
  /\ instErr = [err |-> "none", from |-> "none"]
  /\ installFolder = "unset"

InstallNext ==
  \/ InstallMkdtemp
  \/ InstallCreate
  \/ InstallEntry
  \/ InstallReturn

InstallSpec == InstallInit /\ [][InstallNext]_vars

\* ================================================ CompileUnit.compile
\* Bound: the number of patches registered.
MaxPatches == 2

\* A registered patch: the class of its value and what the repository
\* holds for it: the patch parses and applies ("ok"), does not parse
\* ("noparse"), parses and does not apply ("noapply"); for a
\* PatchConstant, the constant's file is there ("ok") or not ("nofile").
PatchKinds ==
  [cls : {"Path", "str"}, repo : {"ok", "noparse", "noapply"}]
  \cup [cls : {"bytes"}, repo : {"ok"}]
  \cup [cls : {"PatchConstant"}, repo : {"ok", "nofile"}]

\* One turn of the patch loop: "ok", or the exception raised.  A Path goes
\* through patch_ng.fromfile and a str through patch_ng.fromstring, which
\* return False on a parse error; anything else is taken for a
\* PatchConstant and its apply() is called, which bytes do not have;
\* PatchConstant.apply opens the constant's file and returns True.
ApplyPatch(pt) ==
  CASE pt.cls \in {"Path", "str"} ->
         IF pt.repo = "ok" THEN "ok" ELSE "RuntimeError"
    [] pt.cls = "bytes" -> "AttributeError"
    [] pt.cls = "PatchConstant" ->
         IF pt.repo = "ok" THEN "ok" ELSE "FileNotFoundError"

\* proc.returncode after "with self.server.run(..) as proc: proc.wait()",
\* for a command that ended with status st: the status, or, on a remote
\* handle whose end-of-stream came before its exit status, still -1.
RunReturncodes(st) == IF cuLocal THEN {st} ELSE {st, Unset}

\* if proc.returncode != 0
CloneFailed(rc) == rc # 0

\* The server the unit compiles on.
CuServer == "s1"

\* What self.server.mkdtemp(prefix) returns: a Path on a local server, a
\* RemotePath carrying the server on a remote one.
ServerMkdtempObj(prefix) ==
  IF cuLocal
  THEN PathObj("Path", "unset", CuServer, <<Seg(prefix, 0)>>)
  ELSE PathObj("RemotePath", CuServer, CuServer, <<Seg(prefix, 0)>>)

\* compile_opts.already_compiled, when given: a Path.
AlreadyCompiled == PathObj("Path", "unset", "none", <<Seg("built", 0)>>)

\* tmp_folder in compile()
CompileTmpFolder ==
  IF alreadyCompiled = "None" THEN ServerMkdtempObj("compile_massa_")
  ELSE AlreadyCompiled

\* Path(q): a new pathlib path of the same parts; of a RemotePath, a
\* plain path without the server.
PathCtor(q) == PathObj("Path", "unset", q.origin, q.parts)

\* The property CompileUnit.repo
CompileUnitRepo == IF alreadyCompiled # "None" THEN AlreadyCompiled ELSE cuRepo

notCu == <<handleVars, waitVars, fsVars, pureVars, instVars, sessVars, tmVars>>
cuConf == <<cuLocal, alreadyCompiled, patches, buildTarget>>

\* The folder: already_compiled, removed first if it exists (through
\* self.server.rmtree, which Server does not define), or a new temporary
\* folder.
CompileFolder ==
  /\ cuPc = "start"
  /\ IF alreadyCompiled = "exists"
     THEN cuPc' = "failed" /\ cuErr' = "AttributeError"
     ELSE cuPc' = "clone" /\ cuErr' = cuErr
  /\ UNCHANGED <<cuConf, cuIdx, cuLog, cuRepo, cuTarget, cuCopy, notCu>>

\* git clone is run and waited for.
CompileClone ==
  /\ cuPc = "clone"
  /\ \E st \in Statuses : \E rc \in RunReturncodes(st) :
       /\ cuLog' = Append(cuLog, [step |-> "clone", n |-> 0, status |-> st])
       /\ IF CloneFailed(rc)
          THEN cuPc' = "failed" /\ cuErr' = "RuntimeError" /\ cuIdx' = cuIdx
          ELSE /\ cuPc' = IF patches = <<>> THEN "build" ELSE "patch"
               /\ cuErr' = cuErr
               /\ cuIdx' = 1
  /\ UNCHANGED <<cuConf, cuRepo, cuTarget, cuCopy, notCu>>

\* for patch_name, patch in self._patches.items(): one turn.
CompilePatch ==
  LET r == ApplyPatch(patches[cuIdx])
  IN /\ cuPc = "patch"
     /\ cuLog' = Append(cuLog, [step |-> "patch", n |-> cuIdx,
                                status |-> IF r = "ok" THEN 0 ELSE 1])
     /\ IF r # "ok"
        THEN cuPc' = "failed" /\ cuErr' = r /\ cuIdx' = cuIdx
        ELSE /\ cuPc' = IF cuIdx = Len(patches) THEN "build" ELSE "patch"
             /\ cuErr' = cuErr
             /\ cuIdx' = cuIdx + 1
     /\ UNCHANGED <<cuConf, cuRepo, cuTarget, cuCopy, notCu>>

\* cargo build is run in the folder and waited for.
CompileBuild ==
  /\ cuPc = "build"
  /\ \E st \in Statuses : \E rc \in RunReturncodes(st) :
       /\ cuLog' = Append(cuLog, [step |-> "build", n |-> 0, status |-> st])
       /\ IF rc # 0
          THEN cuPc' = "failed" /\ cuErr' = "RuntimeError"
          ELSE cuPc' = "record" /\ cuErr' = cuErr
  /\ UNCHANGED <<cuConf, cuIdx, cuRepo, cuTarget, cuCopy, notCu>>

\* The end of compile(): with --target in the build command the
\* architecture is read from it (RuntimeError if it cannot be), and
\* self._repo and self._target are set.
CompileRecord ==
  /\ cuPc = "record"
  /\ IF buildTarget = "nomatch"
     THEN /\ cuPc' = "failed"
          /\ cuErr' = "RuntimeError"
          /\ UNCHANGED <<cuRepo, cuTarget>>
     ELSE /\ cuPc' = "done"
          /\ cuErr' = cuErr
          /\ cuRepo' = PathCtor(CompileTmpFolder)
          /\ cuTarget' = IF buildTarget = "arch" THEN "arch" ELSE ""
  /\ UNCHANGED <<cuConf, cuIdx, cuLog, cuCopy, notCu>>

\* Node._install on the server the unit was compiled on, its first file:
\* tmp_folder = self.server.mkdtemp(..), src = repo / to_install,
\* dst = tmp_folder / "massa-node" / to_install.name, copy_file(src, dst).
CompileInstallCopy ==
  LET src == TrueDiv(CompileUnitRepo, "target")
      dst == TrueDiv(TrueDiv(ServerMkdtempObj("massa_"), "massa-node"), "bin")
  IN /\ cuPc = "done"
     /\ cuCopy' = CopyCase(src, dst)
     /\ cuPc' = "installed"
     /\ UNCHANGED <<cuConf, cuIdx, cuLog, cuErr, cuRepo, cuTarget, notCu>>

\* A unit just built, with its options and the patches registered by
\* add_patch and add_patch_constant.
CompileInit ==
  /\ HandleIdle /\ WaitIdle /\ FsIdle /\ PureIdle /\ InstIdle /\ SessIdle /\ TermIdle
  /\ cuLocal \in BOOLEAN
  /\ alreadyCompiled \in {"None", "exists", "absent"}
  /\ patches \in UNION {[1..n -> PatchKinds] : n \in 0..MaxPatches}
  /\ buildTarget \in {"none", "arch", "nomatch"}
  /\ cuPc = "start"
  /\ cuIdx = 0
  /\ cuLog = <<>>
  /\ cuErr = "none"
  /\ cuRepo = NoPath
  /\ cuTarget = ""
  /\ cuCopy = "none"

CompileNext ==
  \/ CompileFolder
  \/ CompileClone
  \/ CompilePatch
  \/ CompileBuild
  \/ CompileRecord
  \/ CompileInstallCopy

CompileSpec == CompileInit /\ [][CompileNext]_vars

\* ====================================== several handles, one connection
\* Bound: the chunks one command prints.
MaxChunks == 2

\* Variant: the transport hands the channel it opened last out again.
OpenSessionReused(n) == IF n = 0 THEN 1 ELSE n

\* transport.open_session(): a new channel, numbered after the ones
\* opened before.
OpenSession(n) == n + 1

\* isinstance(fp, io.TextIOBase)
IsTextSink(k) == k = "sys.stdout"

notSess == <<handleVars, waitVars, fsVars, pureVars, instVars, cuVars, tmVars>>

\* SshServer.run and the entry of the scope: a channel is opened on the
\* shared transport, the handle is built around it (returncode -1), the
\* worker is started on (channel, stdout) and the command submitted.
SessRun(h) ==
  /\ hPc[h] = "none"
  /\ \E k \in Sinks :
       LET c == OpenSession(nextChan)
       IN /\ c \in Chans
          /\ nextChan' = c
          /\ hChannel' = [hChannel EXCEPT ![h] = c]
          /\ hSink' = [hSink EXCEPT ![h] = k]
          /\ hReturncode' = [hReturncode EXCEPT ![h] = Unset]
          /\ hWorker' = [hWorker EXCEPT ![h] = "loop"]
          /\ hPc' = [hPc EXCEPT ![h] = "running"]
  /\ UNCHANGED <<chEof, chStatusReady, chExitStatus, chInbuf, chSent, sinkData,
                 notSess>>

\* The command of handle h prints a chunk, which arrives on its channel.
SessOutput(h) ==
  LET c == hChannel[h]
  IN /\ hPc[h] \in {"running", "joining"}
     /\ ~chStatusReady[c]
     /\ chSent[c] < MaxChunks
     /\ chSent' = [chSent EXCEPT ![c] = @ + 1]
     /\ chInbuf' = [chInbuf EXCEPT ![c] = @ + 1]
     /\ UNCHANGED <<nextChan, hPc, hChannel, hSink, hReturncode, hWorker, chEof,
                    chStatusReady, chExitStatus, sinkData, notSess>>

\* The command of handle h ends and its exit status arrives.
SessExit(h) ==
  LET c == hChannel[h]
  IN /\ hPc[h] \in {"running", "joining"}
     /\ ~chStatusReady[c]
     /\ \E st \in Statuses :
          chExitStatus' = [chExitStatus EXCEPT ![c] = st]
     /\ chStatusReady' = [chStatusReady EXCEPT ![c] = TRUE]
     /\ UNCHANGED <<nextChan, hPc, hChannel, hSink, hReturncode, hWorker, chEof,
                    chInbuf, chSent, sinkData, notSess>>

\* output_fp, one read: channel.recv, then fp.write of the chunk, decoded
\* first for a text sink; a chunk that does not decode ends the worker
\* with UnicodeDecodeError.
SessDrain(h) ==
  LET c == hChannel[h]
  IN /\ hWorker[h] \in {"loop", "grace"}
     /\ chInbuf[c] > 0
     /\ chInbuf' = [chInbuf EXCEPT ![c] = @ - 1]
     /\ \E decodes \in IF IsTextSink(hSink[h]) THEN BOOLEAN ELSE {TRUE} :
          IF decodes
          THEN /\ sinkData' = [sinkData EXCEPT ![hSink[h]] = Append(@, c)]
               /\ hWorker' = hWorker
          ELSE /\ hWorker' = [hWorker EXCEPT ![h] = "dead"]
               /\ sinkData' = sinkData
     /\ UNCHANGED <<nextChan, hPc, hChannel, hSink, hReturncode, chEof,
                    chStatusReady, chExitStatus, chSent, notSess>>

\* output_fp, the test at the top of the loop: with the exit status ready
\* or eof_received set, the worker enters its grace loop.
SessWorkerCheck(h) ==
  LET c == hChannel[h]
  IN /\ hWorker[h] = "loop"
     /\ chStatusReady[c] \/ chEof[c]
     /\ hWorker' = [hWorker EXCEPT ![h] = "grace"]
     /\ UNCHANGED <<nextChan, hPc, hChannel, hSink, hReturncode, chEof,
                    chStatusReady, chExitStatus, chInbuf, chSent, sinkData,
                    notSess>>

\* output_fp, the end of the grace loop: the worker returns.
SessWorkerEnd(h) ==
  /\ hWorker[h] = "grace"
  /\ hWorker' = [hWorker EXCEPT ![h] = "done"]
  /\ UNCHANGED <<nextChan, hPc, hChannel, hSink, hReturncode, chEof,
                 chStatusReady, chExitStatus, chInbuf, chSent, sinkData,
                 notSess>>

\* The exit of the scope: channel.eof_received = True, then the join.
SessTeardown(h) ==
  /\ hPc[h] = "running"
  /\ chEof' = [chEof EXCEPT ![hChannel[h]] = TRUE]
  /\ hPc' = [hPc EXCEPT ![h] = "joining"]
  /\ UNCHANGED <<nextChan, hChannel, hSink, hReturncode, hWorker,
                 chStatusReady, chExitStatus, chInbuf, chSent, sinkData,
                 notSess>>

\* bgthd.join(1) returns, the worker over or not, and the return code is
\* read from the channel.
SessRelease(h) ==
  /\ hPc[h] = "joining"
  /\ hReturncode' = [hReturncode EXCEPT ![h] = chExitStatus[hChannel[h]]]
  /\ hPc' = [hPc EXCEPT ![h] = "released"]
  /\ UNCHANGED <<nextChan, hChannel, hSink, hWorker, chEof, chStatusReady,
                 chExitStatus, chInbuf, chSent, sinkData, notSess>>

\* The steps about handle h.
SessStep(h) ==
  \/ SessRun(h)
  \/ SessOutput(h)
  \/ SessExit(h)
  \/ SessDrain(h)
  \/ SessWorkerCheck(h)
  \/ SessWorkerEnd(h)
  \/ SessTeardown(h)
  \/ SessRelease(h)

SessInit ==
  /\ HandleIdle /\ WaitIdle /\ FsIdle /\ PureIdle /\ InstIdle /\ CuIdle
  /\ TermIdle
  /\ SessStart

SessNext ==
  \/ \E h \in Handles : SessRun(h)
  \/ \E h \in Handles : SessOutput(h)
  \/ \E h \in Handles : SessExit(h)
  \/ \E h \in Handles : SessDrain(h)
  \/ \E h \in Handles : SessWorkerCheck(h)
  \/ \E h \in Handles : SessWorkerEnd(h)
  \/ \E h \in Handles : SessTeardown(h)
  \/ \E h \in Handles : SessRelease(h)

SessSpec == SessInit /\ [][SessNext]_vars

\* ======================================= MassaClusterManager.terminate
\* Bounds: the largest terminating_timeout and waiting_interval tried, in
\* seconds.
MaxTerminating == 4
MaxInterval == 2

notTm == <<handleVars, waitVars, fsVars, pureVars, instVars, cuVars, sessVars>>
tmConf == <<terminatingTimeout, waitingInterval>>

\* self.manager.remove_namespace(namespace); start_time = time.time().
\* The API removes the namespace in the background; it refuses the
\* request (ApiException, not caught) for a namespace that does not exist.
TerminateRemove ==
  /\ tmPc = "remove"
  /\ IF namespacePhase = "absent"
     THEN tmPc' = "raised" /\ namespacePhase' = namespacePhase
     ELSE tmPc' = "poll" /\ namespacePhase' \in {"Active", "Terminating"}
  /\ elapsed' = 0
  /\ UNCHANGED <<tmConf, namespaceStatus, notTm>>

\* KubernetesManager.get_namespace_status: the namespace's status, None
\* on a 404, any other ApiException raised again.
GetNamespaceStatus(phase) ==
  {IF phase = "absent" THEN "None" ELSE phase, "ApiException"}

\* Top of the loop: the poll.
TerminatePoll ==
  /\ tmPc = "poll"
  /\ \E r \in GetNamespaceStatus(namespacePhase) :
       IF r = "ApiException"
       THEN tmPc' = "raised" /\ namespaceStatus' = namespaceStatus
       ELSE tmPc' = "check" /\ namespaceStatus' = r
  /\ UNCHANGED <<tmConf, elapsed, namespacePhase, notTm>>

\* Variant: the timeout compared with > .
TerminateTimedOutLate(e, t) == e > t

\* time.time() - start_time >= terminating_timeout
TerminateTimedOut(e, t) == e >= t

\* The two tests that leave the loop, else the sleep is entered.
TerminateCheck ==
  /\ tmPc = "check"
  /\ tmPc' = IF namespaceStatus = "None" \/ namespaceStatus # "Terminating"
             THEN "returned"
             ELSE IF TerminateTimedOut(elapsed, terminatingTimeout)
             THEN "returned"
             ELSE "sleep"
  /\ UNCHANGED <<tmConf, elapsed, namespacePhase, namespaceStatus, notTm>>

\* time.sleep(waiting_interval) ends.
TerminateSleep ==
  /\ tmPc = "sleep"
  /\ elapsed' = elapsed + waitingInterval
  /\ tmPc' = "poll"
  /\ UNCHANGED <<tmConf, namespacePhase, namespaceStatus, notTm>>

\* The cluster goes on with the removal: the namespace becomes
\* Terminating, then disappears.
NamespaceProgress ==
  /\ tmPc \in {"poll", "check", "sleep"}
  /\ namespacePhase \in {"Active", "Terminating"}
  /\ namespacePhase' = IF namespacePhase = "Active" THEN "Terminating" ELSE "absent"
  /\ UNCHANGED <<tmConf, elapsed, tmPc, namespaceStatus, notTm>>

\* terminate(namespace, terminating_timeout, waiting_interval) is called,
\* for a namespace that exists or not.
TerminateInit ==
  /\ HandleIdle /\ WaitIdle /\ FsIdle /\ PureIdle /\ InstIdle /\ CuIdle /\ SessIdle
  /\ terminatingTimeout \in 0..MaxTerminating
  /\ waitingInterval \in 1..MaxInterval
  /\ elapsed = 0
  /\ tmPc = "remove"
  /\ namespacePhase \in {"absent", "Active"}
  /\ namespaceStatus = "unset"

\* The steps of the thread in terminate.
TerminateStep ==
  \/ TerminateRemove
  \/ TerminatePoll
  \/ TerminateCheck
  \/ TerminateSleep

TerminateNext ==
  \/ TerminateRemove
  \/ TerminatePoll
  \/ TerminateCheck
  \/ TerminateSleep
  \/ NamespaceProgress

\* The thread in terminate is scheduled and its sleeps end.
TerminateSpec ==
  TerminateInit /\ [][TerminateNext]_vars /\ WF_vars(TerminateStep)

\* ============================================================ claims
IsPrefix(a, b) == Len(a) <= Len(b) /\ SubSeq(b, 1, Len(a)) = a

\* The caller is inside the handle's scope exit.
InTeardown == cpc \in {"l_exit", "td_eof", "td_join", "td_status"}
\* A step of the handle's scope exit.
TeardownStep == TeardownEof \/ TeardownJoin \/ TeardownStatus \/ LocalExit
\* The command runs and has given no sign of life: no output, no exit
\* status, no close.
Quiet == cmd = "running" /\ arrived = 0 /\ ~statusReady /\ ~closed

\* C1: the scope exit of a remote handle performs, on the normal and on
\* the error path alike, (a) eof_received = True, (b) the join, bounded by
\* its timeout, (c) the read of exit_status, in this order, skipping none.
C1_TeardownOrder ==
  /\ tdLog \in {<<>>, <<"eof">>, <<"eof", "join">>, <<"eof", "join", "status">>}
  /\ (cpc = "td_join") => (tdLog = <<"eof">> /\ eofReceived)
  /\ (cpc = "td_status") => (tdLog = <<"eof", "join">> /\ eofReceived)
  /\ (~local /\ cpc = "released") =>
        (tdLog = <<"eof", "join", "status">> /\ eofReceived)
  /\ joinT <= JoinTimeout

\* C1, its case: a remote scope left by an exception, teardown done.
C1_Witness ==
  /\ ~local
  /\ cpc = "released"
  /\ raised = "Exception"
  /\ tdLog = <<"eof", "join", "status">>

\* C2: once the scope of a remote handle whose command printed its N
\* bytes and exited has been torn down, the sink holds exactly those N
\* bytes, in order.  Stated for the caller that called wait() in its
\* block, so that the command had ended before the teardown began.
C2_DrainComplete ==
  (~local /\ waited /\ cpc = "released" /\ cmd = "exited") =>
    Encode(sink) = AllBytes

\* C3: when the block of a Node.start scope raises, then once the scope
\* is left the command has been signalled to stop if it still runs, the
\* handle reports an exit status, and the exception that leaves is the
\* one the block raised.  Stated for the scope whose stop step fell back
\* to Server.stop and whose drain worker met no error.
C3_ErrorTeardown ==
  (/\ wrapper = "node"
   /\ cpc = "released"
   /\ raised = "Exception"
   /\ stopCalled
   /\ wpc # "dead") =>
    /\ cmd = "running" => stopSignal # "none"
    /\ IF local THEN reaped ELSE returncode # Unset
    /\ pend = raised

C6_SinkIsPrefix == IsPrefix(Encode(sink), Delivered)

\* C6, its case: a remote sink that received more than one chunk.
C6_Witness == ~local /\ Len(Encode(sink)) > RecvMax

\* C7: a step by which the caller leaves wait() on a remote handle is
\* taken only with exit status ready or end-of-stream, and leaves the
\* channel's buffer, the sink and their readers and writers as they were.
C7_WaitFrame ==
  [][(cpc = "wait" /\ ~local /\ cpc' # cpc) =>
       /\ ExitStatusReady \/ eofReceived
       /\ inbuf' = inbuf
       /\ sink' = sink
       /\ readers' = readers
       /\ writers' = writers]_vars

\* C7, its case: wait() has returned with output still pending in the
\* channel.
C7_Witness ==
  /\ ~local
  /\ waited
  /\ cpc = "block"
  /\ inbuf # <<>>
  /\ "caller" \notin readers

\* C8: a command still running when its handle has been released has
\* been sent a termination signal.  Stated for the handle whose drain
\* worker met no error.
C8_StoppedOnRelease ==
  (cpc = "released" /\ cmd = "running" /\ wpc # "dead") => stopSignal # "none"

\* C9: once Server.run has returned for a remote context the command has
\* been submitted, and a failure to submit it is a failure of run().
C9_SubmittedOnReturn ==
  /\ (~local /\ cpc = "have_handle") => submitted
  /\ cpc # "enter_failed"

\* C10: Server.stop on a remote handle closes the handle's channel.
C10_StopClosesChannel == (~local /\ stopCalled) => closed

\* The caller has gone through Node.stop: the stop request has been made.
PastNodeStop == cpc \in {"l_exit", "td_eof", "td_join", "td_status", "released"}

\* C11: under Node.start, Server.stop has been called only once the stop
\* request to the private API has been made and has failed with a
\* connection error: never after the API took the request, and the
\* connection error does not propagate (what propagates is what the block
\* raised, or nothing).
C11_StopFallback ==
  (wrapper = "node" /\ stopCalled) =>
    /\ PastNodeStop
    /\ stopSignal # "api"
    /\ pend = raised

C11_Witness ==
  /\ wrapper = "node"
  /\ stopCalled
  /\ cpc = "released"
  /\ cmd = "running"
  /\ raised = "none"

\* C12: when the block of a Node.start scope raises, the stop step and the
\* handle's teardown have run when the scope is left, and the exception
\* that leaves is the one the block raised.
C12_OriginalErrorLeaves ==
  (wrapper = "node" /\ cpc = "released" /\ raised = "Exception") =>
    /\ IF local THEN reaped ELSE tdLog = <<"eof", "join", "status">>
    /\ pend = raised

\* C13: a wait_ready or wait_with_cb against a target that never becomes
\* ready ends in TimeoutError, raised when the accumulated sleep has
\* reached the timeout and at most one polling interval after that.
C13_TimesOut ==
  /\ [](waitPc = "timed_out" => (count >= timeout /\ count <= timeout + duration))
  /\ (waitPc = "poll" /\ neverReady) ~> (waitPc = "timed_out")

\* The host a path object names a place on.
PathHost(q) == IF q.cls = "RemotePath" THEN q.server ELSE LocalHost
IsRemote(q) == q.cls = "RemotePath"

\* C14: a copy_file call over one of the four supported combinations
\* calls exactly one transfer primitive: the stream copy through the
\* common context's open, the destination context's send_file, the source
\* context's receive primitive, or the local copy; a path that descends
\* from a remote context's mkdtemp is handled by that context.
C14_OnePrimitive ==
  LET a == last.src
      b == last.dst
  IN (/\ last.op = "copy_file"
      /\ ~(IsRemote(a) /\ IsRemote(b) /\ a.server # b.server)
      /\ IsFile(PathHost(a), a.parts)) =>
       /\ Len(last.prims) = 1
       /\ (IsRemote(a) /\ IsRemote(b)) => last.prims[1] = <<a.server, "open">>
       /\ (~IsRemote(a) /\ IsRemote(b)) => last.prims[1] = <<b.server, "send_file">>
       /\ (IsRemote(a) /\ ~IsRemote(b)) => last.prims[1][1] = a.server
       /\ (~IsRemote(a) /\ ~IsRemote(b)) => last.prims[1] = <<"none", "shutil.copy">>
       /\ (b.origin # "none" /\ ~optsLocal[b.origin]) => last.prims[1][1] = b.origin

\* C15: a copy_file call over one of the four supported combinations,
\* from an existing file to a place that can be written and is not the
\* source itself, completes and leaves there the content of the source.
C15_ContentCopied ==
  LET a == last.src
      b == last.dst
      hd == CopyDstHost(a, b)
      t == CopyTarget(a, b)
  IN (/\ last.op = "copy_file"
      /\ ~(IsRemote(a) /\ IsRemote(b) /\ a.server # b.server)
      /\ IsFile(PathHost(a), a.parts)
      /\ last.was \in {"absent", "file"}
      /\ <<PathHost(a), a.parts>> # <<hd, t>>) =>
       /\ last.res = "ok"
       /\ IsFile(hd, t)
       /\ ContentOf(hd, t) = ContentOf(PathHost(a), a.parts)

\* A step that is a copy_file call between two remote paths of different
\* contexts.
CopyAcrossContexts ==
  /\ nOps' = nOps + 1
  /\ last'.op = "copy_file"
  /\ IsRemote(last'.src) /\ IsRemote(last'.dst)
  /\ last'.src.server # last'.dst.server

\* C16: copy_file between remote paths of different contexts raises
\* NotImplementedError, calls no transfer primitive, and leaves every file
\* system and every context as it was.
C16_NoFallback ==
  [][CopyAcrossContexts =>
       /\ last'.res = "NotImplementedError"
       /\ last'.prims = <<>>
       /\ files' = files /\ dirs' = dirs /\ used' = used]_vars

C16_Witness ==
  /\ last.op = "copy_file"
  /\ IsRemote(last.src) /\ IsRemote(last.dst)
  /\ last.src.server # last.dst.server
  /\ IsFile(last.src.server, last.src.parts)

\* C17: every RemotePath the caller holds, however many segments were
\* joined to it, is owned by the context whose mkdtemp it descends from.
C17_JoinKeepsServer ==
  \A q \in held \cup {cur} :
    IsRemote(q) => (q.origin \in Servers /\ q.server = q.origin)

C17_Witness ==
  /\ IsRemote(cur)
  /\ Len(cur.parts) = 3
  /\ cur.parts[1][2] = now
  /\ cur.parts[2] # cur.parts[3]
  /\ cur.server = last.s

C19_MkdirIdempotent ==
  LET h == HostOf(last.s)
  IN (last.op \in {"Server.mkdir", "SshServer.mkdir"} /\ last.was \in {"absent", "dir"}) =>
       IF last.kw = "false" /\ last.was = "dir"
       THEN last.res # "ok"
       ELSE last.res = "ok" /\ last.dst.parts \in dirs[h]

\* C20: the directories an instance's successful mkdtemp calls returned
\* are pairwise distinct, a successful call returns a directory that did
\* not exist before it, and a call whose name is taken fails.
C20_MkdtempFresh ==
  /\ \A s \in Servers : \A i, j \in 1..Len(cleanup[s]) :
       i # j => cleanup[s][i].parts # cleanup[s][j].parts
  /\ last.op = "mkdtemp" =>
       /\ last.res = "ok" <=> last.was = "absent"
       /\ last.res = "ok" =>
            /\ last.dst.parts \in dirs[HostOf(last.s)]
            /\ cleanup[last.s][Len(cleanup[last.s])] = last.dst

C20_Witness ==
  /\ last.op = "mkdtemp"
  /\ last.res = "IOError"
  /\ Len(cleanup[last.s]) = 2

\* C21: a successful mkdtemp call on an instance appends the path it
\* returns to that instance's cleanup registry, and no other step changes
\* a registry: the registry is at every moment the paths mkdtemp returned
\* so far, in call order.
C21_RegistryAppendOnly ==
  [][\A s \in Servers :
       IF nOps' = nOps + 1 /\ last'.op = "mkdtemp" /\ last'.s = s /\ last'.res = "ok"
       THEN cleanup'[s] = Append(cleanup[s], last'.dst)
       ELSE cleanup'[s] = cleanup[s]]_vars

\* C21, its case: a local mkdtemp followed by another call on the same
\* instance, the registry holding the earlier and the new directory.
C21_Witness ==
  /\ optsLocal["s1"]
  /\ Len(cleanup["s1"]) = 2
  /\ cleanup["s1"][1] = Earlier("s1", TRUE)
  /\ cleanup["s1"][2].parts \in dirs[LocalHost]
  /\ last.op = "remove" /\ last.s = "s1"

\* C22: once an instance has been dropped at the end of the test, its
\* remote session is closed and a removal has been attempted for every
\* path in its cleanup registry.
C22_TeardownCleans ==
  last.op = "del" =>
    /\ last.kw # "open"
    /\ \A i \in 1..Len(cleanup[last.s]) :
         \E j \in 1..Len(last.prims) :
           last.prims[j] = <<"remove", cleanup[last.s][i]>>

\* C24: the returncode of a remote handle is -1 or the channel's exit
\* status, is not -1 only once the command has ended and the scope has
\* been torn down, and is assigned by the last teardown step only.
C24_ReturncodeUnsetOrStatus ==
  /\ [](returncode \in {Unset, exitStatus})
  /\ [](returncode # Unset => (cmd = "exited" /\ cpc = "released"))
  /\ [](cpc \in {"init", "have_handle", "exec", "block"} => returncode = Unset)
  /\ [][returncode' # returncode => (cpc = "td_status" /\ cpc' = "released")]_vars

\* C24, its case: a remote handle released with the command's non-zero
\* status.
C24_Witness ==
  /\ ~local
  /\ cpc = "released"
  /\ exitStatus = 1
  /\ returncode = 1

\* The string the claim describes: 'cd <cwd> && ' when cwd is set, then
\* one NAME='VALUE' per variable in env order, separated by spaces and
\* followed by one, when env is not empty, then the command.
RECURSIVE C23_Assignments(_)
C23_Assignments(items) ==
  IF items = <<>> THEN <<>>
  ELSE <<Assign(items[1][1], items[1][2]), Sp>> \o C23_Assignments(Tail(items))

\* C23: SshServer.run submits exactly that string, and the remote shell
\* given it runs one command, the caller's, in the directory cwd (its own
\* when cwd is not set) and with every variable of env in its environment,
\* none of them staying in the shell.  Stated for simple commands and for
\* directories and values that are plain words.
C23_CommandString ==
  callRes.st = "ok" =>
    LET a == callArgs
        cwdSet == a.cwd \notin {"None", ""}
        ran == ShEval(ShTokens(callRes.cmd), "home", {}, {})
    IN /\ callRes.cmd =
            (IF cwdSet THEN <<Word("cd"), Sp, Word(a.cwd), Sp, AndAnd, Sp>> ELSE <<>>)
            \o C23_Assignments(a.env.items) \o a.cmd[1]
       /\ Len(ran) = 1
       /\ ran[1].argv = ShTokens(a.cmd[1])
       /\ ran[1].dir = (IF cwdSet THEN a.cwd ELSE "home")
       /\ ran[1].env = {a.env.items[i] : i \in 1..Len(a.env.items)}
       /\ ran[1].shell = {}

\* C26: no installer ever calls copy_file for the manifest's private key
\* entry, and the install folder never holds a node_privkey.key.
C26_PrivkeySkipped ==
  /\ \A i \in 1..Len(copies) : copies[i] # "node_privkey.key"
  /\ \A f \in instFiles : f[Len(f)] # "node_privkey.key"

\* C27: a copy that fails ends the installation at its entry.  The error
\* that leaves _install is the transfer's, no install folder is returned,
\* the failed copy is the last one attempted (in particular a copy whose
\* source is missing is never followed by another), no later entry has a
\* file in the folder, and the files copied before are all still there.
C27_CopyFailureAborts ==
  /\ \A i \in 1..Len(copies) :
       copies[i] \notin built =>
         (i = Len(copies) /\ instPc = "failed" /\ instErr.from = "copy_file")
  /\ (instPc = "failed" /\ instErr.from = "copy_file") =>
       /\ instErr.err \in {"FileNotFoundError", "IOError"}
       /\ installFolder = "unset"
       /\ copies[Len(copies)] = toInstall[idx].key
       /\ \A j \in (idx + 1)..Len(toInstall) :
            /\ \A i \in 1..Len(copies) : copies[i] # toInstall[j].key
            /\ \A f \in instFiles : f[Len(f)] # toInstall[j].rel[Len(toInstall[j].rel)]
                                      \/ f[1] # InstallDst(instCls, toInstall[j]).rel[1]
       /\ Cardinality(instFiles) = Len(copies) - 1
  /\ instPc = "failed" => ~ENABLED InstallNext

\* C27, its case: a Node installed on a remote server from a tree that
\* lacks a configuration file, after the two binaries were copied.
C27_Witness ==
  /\ instCls = "Node"
  /\ ~instLocal
  /\ instPc = "failed"
  /\ instErr = [err |-> "FileNotFoundError", from |-> "copy_file"]
  /\ Cardinality(instFiles) = 2
  /\ idx = 3

\* Handle h is in flight: its command was started and it is not released.
C25_InFlight(h) == hPc[h] \in {"running", "joining"}

\* What a handle holds: its channel and the channel's flags, its worker,
\* its return code.
C25_View(h) ==
  <<hChannel[h], hWorker[h], hReturncode[h], hSink[h],
    IF hChannel[h] \in Chans
    THEN <<chEof[hChannel[h]], chStatusReady[hChannel[h]],
           chExitStatus[hChannel[h]]>>
    ELSE <<>> >>

\* No two handles that were run hold the same channel.
C25_ChannelsDistinct ==
  \A h, g \in Handles :
    (h # g /\ hChannel[h] # 0 /\ hChannel[g] # 0) => hChannel[h] # hChannel[g]

C28_Steps ==
  <<"clone">> \o [i \in 1..Len(patches) |-> "patch"] \o <<"build">>

\* C28: the steps run are the first ones of (clone, patches in insertion
\* order, build), each run only after the ones before it succeeded; a
\* step that fails is the last one run and makes compile() raise
\* RuntimeError; repo and target are recorded only after every step
\* succeeded.
C28_CompileSteps ==
  /\ Len(cuLog) <= Len(C28_Steps)
  /\ \A i \in 1..Len(cuLog) :
       /\ cuLog[i].step = C28_Steps[i]
       /\ cuLog[i].step = "patch" => cuLog[i].n = i - 1
       /\ i < Len(cuLog) => cuLog[i].status = 0
  /\ (cuLog # <<>> /\ cuLog[Len(cuLog)].status # 0) =>
       (cuPc = "failed" /\ cuErr = "RuntimeError")
  /\ (cuRepo # NoPath \/ cuTarget # "") =>
       /\ Len(cuLog) = Len(C28_Steps)
       /\ \A i \in 1..Len(cuLog) : cuLog[i].status = 0

\* C29: a roll builder called with (sender_private_key, creator_public_key,
\* fee, expire_period, roll_count) returns a record with the given creator
\* key and the content varint(fee), varint(expire_period), varint(type id),
\* varint(roll_count), the type id 1 for a buy and 2 for a sell; for
\* (100, 10, 5): [100, 10, 1, 5] and [100, 10, 2, 5].
C29_RollContent ==
  LET a == callArgs
      id == IF a.fn = "create_roll_buy" THEN 1 ELSE 2
  IN (callRes.st # "none" /\ ~a.chainGiven) =>
       /\ callRes.st = "ok"
       /\ callRes.creator_public_key = a.creator_public_key
       /\ callRes.serialized_content =
            VarintEncode(a.fee) \o VarintEncode(a.expire_period)
            \o VarintEncode(id) \o VarintEncode(a.roll_count)
       /\ (a.fee = 100 /\ a.expire_period = 10 /\ a.roll_count = 5) =>
            callRes.serialized_content = <<100, 10, id, 5>>

\* C23, its case: a string built from a directory, two variables and a
\* command of two words.
C23_Witness ==
  /\ callRes.st = "ok"
  /\ callArgs.cwd = "d"
  /\ Len(callArgs.env.items) = 2
  /\ Len(callArgs.cmd[1]) = 3
  /\ Len(callRes.cmd) = 13

\* C30: while the grace window runs (its clock started and not yet past
\* the window) the drain worker is in its grace loop, and a chunk that is
\* available there is received before any time passes.
C30_GraceDrains ==
  /\ (~local /\ graceT \in 1..GraceWindow) => wpc \in {"grace", "gracew", "gsleep"}
  /\ (wpc = "grace" /\ RecvReady) => ~ENABLED Tick

\* The worker's phase, in the words of the handle's life cycle.
C31_Phase ==
  CASE wpc = "none" -> "Created"
    [] wpc \in {"poll", "pollw"} -> "Running"
    [] wpc \in {"grace", "gracew", "gsleep"} -> "Draining"
    [] wpc \in {"done", "dead"} -> "Completed"

\* A completion signal is up: exit status ready or end-of-stream.
C31_Signal == ExitStatusReady \/ eofReceived

C32_WorkerAfterSubmit == wpc # "none" => submitted

\* C34: once the teardown of a remote handle has returned, the drain
\* worker has exited and the sink is written no more.
C34_WorkerOverOnRelease ==
  /\ []((~local /\ cpc = "released") => ~WorkerAlive)
  /\ [][(~local /\ cpc = "released") => sink' = sink]_vars

\* C35: when the caller has called wait() in the scope of a remote handle
\* and left the scope, the handle's return code is the status the command
\* exited with.
C35_WaitedReturncode ==
  (~local /\ waited /\ cpc = "released") =>
    (cmd = "exited" /\ returncode = cmdStatus)

C37_StopInvoked == stopSignal = "api" \/ stopCalled \/ pend = "ApiError"

\* C37: however the block of a Node.start scope was left, Node.stop has
\* been invoked when the handle's own scope exit begins.
C37_StopBeforeScopeExit == (wrapper = "node" /\ PastNodeStop) => C37_StopInvoked

\* The directories of the skeleton are there.
C33_SkeletonMade ==
  \A i \in 1..Len(ToCreate(instCls)) : ToCreate(instCls)[i] \in instDirs

\* The directory entry e is copied into: the parent of its destination
\* (tmp_folder itself, made by mkdtemp, is <<>>).
C33_Into(e) == Parent(InstallDst(instCls, e).rel)

\* C33: in every installer the skeleton is created before any copy, and
\* the parent directory of an entry's destination is created before the
\* entry is copied: a copy is attempted only with the skeleton made and
\* into a directory that has been created.
C33_DirsBeforeCopies ==
  /\ [](copies # <<>> => C33_SkeletonMade)
  /\ [][copies' # copies =>
         /\ instPc = "entry"
         /\ copies' = Append(copies, toInstall[idx].key)
         /\ C33_SkeletonMade'
         /\ C33_Into(toInstall[idx]) = <<>> \/ C33_Into(toInstall[idx]) \in instDirs']_vars

\* A node installed on a remote server, its deepest file included.
C33_Witness ==
  /\ instCls = "Node" /\ ~instLocal /\ instPc = "done"
  /\ <<"massa-node", "base_config", "gas_costs", "abi_gas_costs.json">> \in instFiles

\* C38: during Node._install on a remote server with the default manifest
\* no mkdir fails: each one targets a directory whose parent is there.
C38_NodeMkdirParents ==
  /\ []((instCls = "Node" /\ ~instLocal) => instErr.from # "mkdir")
  /\ [][(instCls = "Node" /\ ~instLocal /\ instDirs' # instDirs) =>
         \A ps \in instDirs' \ instDirs :
           Parent(ps) = <<>> \/ Parent(ps) \in instDirs]_vars

\* Node._install on a remote server has made the nested directory of the
\* gas costs, two levels under the skeleton.
C38_Witness ==
  /\ instCls = "Node" /\ ~instLocal
  /\ <<"massa-node", "base_config", "gas_costs">> \in instDirs
  /\ <<"massa-client", "base_config">> \in instDirs

\* C39: after compile() has run on a remote server, CompileUnit.repo is a
\* RemotePath carrying that server, and a file installed from it on the
\* same server is copied within the server, not uploaded.
C39_RepoKeepsServer ==
  /\ (~cuLocal /\ cuPc \in {"done", "installed"}) =>
       (CompileUnitRepo.cls = "RemotePath" /\ CompileUnitRepo.server = CuServer)
  /\ (~cuLocal /\ cuPc = "installed") => cuCopy = "same"

\* C40: terminate always ends: once the removal is requested it polls the
\* namespace, leaves the loop at the first poll that finds the namespace
\* gone or not Terminating, and otherwise at the first poll made with
\* terminating_timeout elapsed; it sleeps only while the namespace was
\* seen Terminating and the timeout has not elapsed, so that the time
\* waited stays under terminating_timeout plus one waiting_interval.
C40_TerminateBounded ==
  /\ [](elapsed <= terminatingTimeout + waitingInterval)
  /\ [](tmPc = "sleep" =>
          (namespaceStatus = "Terminating" /\ elapsed < terminatingTimeout))
  /\ [][(tmPc = "check" /\ tmPc' = "returned") =>
          \/ namespaceStatus \in {"None", "Active"}
          \/ elapsed >= terminatingTimeout]_vars
  /\ [][(tmPc = "check" /\ (namespaceStatus # "Terminating"
                             \/ elapsed >= terminatingTimeout)) =>
          tmPc' \in {"check", "returned"}]_vars
  /\ (tmPc = "poll") ~> (tmPc \in {"returned", "raised"})

\* terminate has returned on its timeout, after sleeping past it, with
\* the namespace still Terminating.
C40_Witness ==
  /\ tmPc = "returned"
  /\ namespaceStatus = "Terminating"
  /\ elapsed > terminatingTimeout
  /\ terminatingTimeout > waitingInterval
====
